---------------------------- MODULE Spec2Model ----------------------------
(***************************************************************************)
(* Model of the request orchestration and resilience layer of              *)
(* mockup-magic-pro: the retry wrapper and the remote-call entry points of *)
(* src/services/geminiService.ts and the batch handler of src/App.tsx.     *)
(*                                                                         *)
(* Strings the code inspects character by character (the error text that   *)
(* retry scans with String.includes) are sequences of one-character        *)
(* strings.  A promise is a record holding the position of the async       *)
(* function that owns it; the code between two awaits is one action.       *)
(***************************************************************************)
EXTENDS Integers, Sequences, FiniteSets, TLC

VARIABLES
    \* ---- one call of retry() studied on its own
    retries,          \* parameter `retries` of the call
    baseDelay,        \* parameter `baseDelay` of the call
    rt,               \* the state of the call (see RetryIdle)
    fnLog,            \* what each invocation of fn did, oldest first: FnOk or its error
    \* ---- the environment of the application
    apiKey,           \* what getApiKey() returns: NoKey or a key
    now,              \* the clock (ms), as Date.now() and the timers see it
    uuids,            \* how many identifiers crypto.randomUUID() has handed out
    \* ---- React state of App
    sourceImage,
    settings,
    selectedFrames,
    selectedLighting,
    selectedTextures,
    editablePrompts,
    isAnalyzing,
    isGenerating,
    loadingMessage,
    results,
    \* ---- what the user was shown with alert()
    alerts,
    \* ---- asynchronous calls in flight
    analyses,         \* the handleMagicAnalysis calls awaiting analyzeImageForPrompts
    closure,          \* the values the running handleGenerateBatch call closed over
    jobs,             \* the promises of its batchPromises, in index order
    batchStartedAt,   \* the clock when it was called
    batches,          \* how many times it has been called
    analyze,          \* the call of analyzeImageForPrompts under study
    regen,            \* the call of regenerateSinglePrompt under study
    gen,              \* the call of generateMockup under study
    upscalingId,      \* App state: the result shown as being upscaled
    upscales,         \* the calls of handleUpscale in flight
    regens,           \* the calls of handleRegenerateSinglePrompt in flight
    \* ---- the credential sources and the text sent
    host,             \* process.env, window.aistudio and localStorage (see Hosts)
    hasKey,           \* App state: what checkApiKey() answered
    finalPrompt,      \* the text generateMockup composed last
    \* ---- the counter that bounds the exploration
    work              \* uploads made plus batch jobs started

retryVars == <<retries, baseDelay, rt, fnLog>>

envVars == <<apiKey, now, uuids>>

uiVars ==
    <<sourceImage, settings, selectedFrames, selectedLighting, selectedTextures,
      editablePrompts, isAnalyzing, isGenerating, loadingMessage, results, alerts>>

asyncVars == <<analyses, closure, jobs, batchStartedAt, batches, analyze>>

boundVars == <<work>>

hostVars == <<host, hasKey, finalPrompt>>

sideVars == <<regen, gen, upscalingId, upscales, regens, hostVars>>

appVars == <<envVars, uiVars, asyncVars, boundVars, sideVars>>

vars == <<retryVars, appVars>>

(***************************************************************************)
(* Bounds of the model.                                                    *)
(***************************************************************************)
MaxRetries == 4          \* retry() is explored for retries in 0..MaxRetries
MaxWork == 4             \* work started in one run: an upload, an edit and a batch job count 1 each
MaxSlots == 3            \* generateMockup is explored for settings.count in 1..MaxSlots
MaxOverlap == 1          \* SpecMarker starts this many upscales beyond MaxWork

(***************************************************************************)
(* Program constants.                                                      *)
(***************************************************************************)
DefaultRetries == 3      \* retry(fn, retries = 3, ...)
DefaultBaseDelay == 2000 \* retry(fn, ..., baseDelay = 2000)
TestBaseDelay == 100     \* the base delay of the spec's worked example
StaggerMs == 2500        \* setTimeout(resolve, 2500) in handleGenerateBatch
MaxSuggestions == 4      \* suggestions.slice(0, 4)

(***************************************************************************)
(* Character strings.                                                      *)
(***************************************************************************)
\* String.prototype.includes: p occurs in s as a contiguous run of characters.
Includes(s, p) ==
    \E k \in 0..(Len(s) - Len(p)) : SubSeq(s, k + 1, k + Len(p)) = p

DigitChar == <<"0", "1", "2", "3", "4", "5", "6", "7", "8", "9">>

\* Number to decimal text, as string concatenation and JSON.stringify render it.
RECURSIVE Digits(_)
Digits(n) ==
    IF n < 10 THEN <<DigitChar[n + 1]>>
    ELSE Digits(n \div 10) \o <<DigitChar[(n % 10) + 1]>>

\* The four substrings retry() looks for.
Pat503 == <<"5", "0", "3">>
PatOverloaded == <<"o", "v", "e", "r", "l", "o", "a", "d", "e", "d">>
PatUNAVAILABLE == <<"U", "N", "A", "V", "A", "I", "L", "A", "B", "L", "E">>
Pat429 == <<"4", "2", "9">>

(***************************************************************************)
(* Errors a remote call can fail with.  An error has the HTTP status the   *)
(* provider answered with (0: none, the request never got an answer) and a *)
(* message.                                                                *)
(***************************************************************************)
MsgOverloaded == <<"m", "o", "d", "e", "l", " ">> \o PatOverloaded
MsgUnavailable == PatUNAVAILABLE
MsgQuota == <<"q", "u", "o", "t", "a">>
MsgBadRequest == <<"b", "a", "d">>
MsgTooLong == <<"m", "a", "x", " ", "4", "2", "9", "0">>
MsgFetch == <<"f", "e", "t", "c", "h">>
MsgMaxRetries == <<"M", "a", "x", " ", "r", "e", "t", "r", "i", "e", "s">>

ErrOverloaded == [status |-> 503, message |-> MsgOverloaded]
ErrUnavailable == [status |-> 503, message |-> MsgUnavailable]
ErrRateLimited == [status |-> 429, message |-> MsgQuota]
ErrBadRequest == [status |-> 400, message |-> MsgBadRequest]
ErrTooLong == [status |-> 400, message |-> MsgTooLong]
ErrNetwork == [status |-> 0, message |-> MsgFetch]
ErrMaxRetries == [status |-> 0, message |-> MsgMaxRetries]
NoError == [status |-> 0, message |-> <<>>]

\* The entry of fnLog for an invocation that resolved.
FnOk == [status |-> 200, message |-> <<"O", "K">>]

Errors ==
    {ErrOverloaded, ErrUnavailable, ErrRateLimited, ErrBadRequest, ErrTooLong,
     ErrNetwork}

\* e.toString(): "Error: " followed by the message.
ErrToString(e) == <<"E", "r", "r", "o", "r", ":", " ">> \o e.message

\* JSON.stringify(e): the own enumerable fields; an error carrying a status
\* renders it, a plain Error renders as {}.
ErrStringify(e) ==
    IF e.status = 0 THEN <<"{", "}">>
    ELSE <<"{">> \o Digits(e.status) \o <<"}">>

\* const errorStr = e.toString() + (JSON.stringify(e) || "")
ErrorStr(e) == ErrToString(e) \o ErrStringify(e)

\* A classification that looks at the status code alone.
IsTransientByStatus(e) == e.status \in {503, 429}

\* const isTransient = errorStr.includes('503') || ... || errorStr.includes('429')
IsTransient(e) ==
    \/ Includes(ErrorStr(e), Pat503)
    \/ Includes(ErrorStr(e), PatOverloaded)
    \/ Includes(ErrorStr(e), PatUNAVAILABLE)
    \/ Includes(ErrorStr(e), Pat429)

(***************************************************************************)
(* retry(fn, retries, baseDelay).  A call of retry is a record:            *)
(*   pc      "idle" not called yet; "await" fn is in flight; "wait" in the *)
(*           backoff wait; "returned" / "thrown" finished                  *)
(*   i       the loop variable                                             *)
(*   calls   how many times fn has been invoked                            *)
(*   waits   the delays waited so far, oldest first                        *)
(*   err     the error retry threw (pc = "thrown") or last caught          *)
(***************************************************************************)
RetryIdle ==
    [pc |-> "idle", i |-> 0, calls |-> 0, waits |-> <<>>, err |-> NoError]

\* Math.pow(2, i)
RECURSIVE Pow2(_)
Pow2(n) == IF n = 0 THEN 1 ELSE 2 * Pow2(n - 1)

\* A delay that grows linearly with the attempt index.
RetryDelayLinear(bd, i) == bd * (i + 1)

\* const delay = baseDelay * Math.pow(2, i)
RetryDelay(bd, i) == bd * Pow2(i)

\* The loop head `i < retries`: either fn is invoked, or the loop is left and
\* the function throws new Error("Max retries reached").
RetryLoopHead(r, n) ==
    IF r.i < n
    THEN [r EXCEPT !.pc = "await", !.calls = @ + 1]
    ELSE [r EXCEPT !.pc = "thrown", !.err = ErrMaxRetries]

\* Entering retry(): i = 0, then the loop head.
RetryEnter(n) == RetryLoopHead(RetryIdle, n)

RetryReturn(r) == [r EXCEPT !.pc = "returned"]

\* A catch block that waits before rethrowing.
RetryCatchWaitFirst(r, n, bd, e) ==
    IF ~IsTransient(e) \/ r.i = n - 1
    THEN [r EXCEPT !.pc = "thrown", !.err = e,
                   !.waits = Append(@, RetryDelay(bd, r.i))]
    ELSE [r EXCEPT !.pc = "wait", !.err = e,
                   !.waits = Append(@, RetryDelay(bd, r.i))]

\* A catch block that retries every error.
RetryCatchRetryAll(r, n, bd, e) ==
    IF r.i = n - 1
    THEN [r EXCEPT !.pc = "thrown", !.err = e]
    ELSE [r EXCEPT !.pc = "wait", !.err = e,
                   !.waits = Append(@, RetryDelay(bd, r.i))]

\* The catch block: rethrow a terminal error or the error of the last attempt,
\* otherwise start the backoff wait.
RetryCatch(r, n, bd, e) ==
    IF ~IsTransient(e) \/ r.i = n - 1
    THEN [r EXCEPT !.pc = "thrown", !.err = e]
    ELSE [r EXCEPT !.pc = "wait", !.err = e,
                   !.waits = Append(@, RetryDelay(bd, r.i))]

\* The wait is over: i++ and the loop head.
RetryWake(r, n) == RetryLoopHead([r EXCEPT !.i = @ + 1], n)

RECURSIVE SumSeq(_)
SumSeq(s) == IF s = <<>> THEN 0 ELSE Head(s) + SumSeq(Tail(s))

(***************************************************************************)
(* Values of the application.                                              *)
(***************************************************************************)
NoKey == <<>>
SomeKey == <<"k", "e", "y">>

NoImage == ""

\* The error thrown by the three remote-call entry points without a key.
MsgNoKey == "API Key not found. Please set GEMINI_API_KEY environment variable."

\* upscalingId === null
NoId == <<>>

\* The images a user uploads: the data URL and the natural size of the image.
Images == {[data |-> "data:image/jpeg;base64,ART", width |-> 4, height |-> 3]}

\* crypto.randomUUID(): the n-th identifier handed out; no two are equal.
Uuid(n) == <<"u">> \o Digits(n)

IdInitial == <<"1">>
IdLoading == <<"l", "o", "a", "d", "i", "n", "g">>

INITIAL_PRESET0 ==
    "A sun-drenched industrial loft wall with harsh shadows and dust motes"

AnalyzingText == "Analyzing for \"Surprise Me\" vibe..."

DEFAULT_SETTINGS ==
    [prompt |-> INITIAL_PRESET0,
     negativePrompt |-> "people, animals, text, watermark, blurry, low quality, distortion, ugly, 3d render, plastic look",
     count |-> 1,
     aspectRatio |-> "3:4",
     imageSize |-> "1K",
     frameStyle |-> "Auto",
     lighting |-> "Auto",
     wallTexture |-> "Auto",
     printSize |-> "A3"]

\* What localStorage holds under 'mockupSettings' when the application starts:
\* nothing, or the settings object an earlier session stored.
SavedSettings ==
    {<<>>, <<[DEFAULT_SETTINGS EXCEPT !.imageSize = "4K", !.count = 3]>>}

\* { ...a, ...b }
Spread(a, b) ==
    [k \in (DOMAIN a) \cup (DOMAIN b) |-> IF k \in DOMAIN b THEN b[k] ELSE a[k]]

\* saved ? { ...DEFAULT_SETTINGS, ...JSON.parse(saved) } : DEFAULT_SETTINGS
InitialSettings(saved) ==
    IF saved = <<>> THEN DEFAULT_SETTINGS ELSE Spread(DEFAULT_SETTINGS, saved[1])

\* The pills the user can toggle in each selector (a subset of FRAME_STYLES,
\* LIGHTING_STYLES and WALL_TEXTURES).
FrameChoices == {"Auto", "None", "Sleek Black"}
LightingChoices == {"Auto", "Golden Hour"}
TextureChoices == {"Auto", "Exposed Brick"}

\* selected.includes(opt)
SeqIncludes(s, x) == \E k \in 1..Len(s) : s[k] = x

\* selected.filter(s => s !== opt)
RECURSIVE Without(_, _)
Without(s, x) ==
    IF s = <<>> THEN <<>>
    ELSE IF Head(s) = x THEN Without(Tail(s), x)
    ELSE <<Head(s)>> \o Without(Tail(s), x)

\* A toggle that also lets the last selected value be switched off.
ToggleOptionRemoveLast(selected, opt) ==
    IF SeqIncludes(selected, opt) THEN Without(selected, opt)
    ELSE IF opt = "Auto" THEN <<"Auto">>
    ELSE Append(Without(selected, "Auto"), opt)

\* A toggle that keeps "Auto" when another value is added.
ToggleOptionKeepAuto(selected, opt) ==
    IF SeqIncludes(selected, opt)
    THEN IF Len(selected) = 1 THEN selected ELSE Without(selected, opt)
    ELSE IF opt = "Auto" THEN <<"Auto">>
    ELSE Append(selected, opt)

\* MultiSelectPills.toggleOption: the value handed to onChange, or `selected`
\* itself when the function returns without calling onChange.
ToggleOption(selected, opt) ==
    IF SeqIncludes(selected, opt)
    THEN IF Len(selected) = 1 THEN selected ELSE Without(selected, opt)
    ELSE IF opt = "Auto" THEN <<"Auto">>
    ELSE Append(Without(selected, "Auto"), opt)

(***************************************************************************)
(* analyzeImageForPrompts.                                                 *)
(***************************************************************************)
FALLBACK_SUGGESTIONS ==
    <<"A modern gallery wall with spot lighting",
      "A cozy bohemian bedroom with plants",
      "A professional office space with sleek furniture",
      "An industrial loft with exposed brick">>

SuggestionPool == <<"s1", "s2", "s3", "s4", "s5">>

\* The body of a successful analysis response, by what JSON.parse makes of
\* response.text: no text at all, a JSON array of strings, a JSON value that
\* is not an array, or text that is not JSON.
BodyArray(n) == [kind |-> "array", items |-> SubSeq(SuggestionPool, 1, n)]
BodyNone == [kind |-> "none", items |-> <<>>]
BodyObject == [kind |-> "object", items |-> <<>>]
BodyGarbage == [kind |-> "garbage", items |-> <<>>]

Bodies ==
    {BodyArray(n) : n \in {0, 1, 3, 5}} \cup {BodyNone, BodyObject, BodyGarbage}

\* const text = response.text || "[]": no text is read as the empty array.
BodyText(body) == IF body.kind = "none" THEN BodyArray(0) ELSE body

\* suggestions.slice(0, 4)
Slice4(s) == SubSeq(s, 1, IF Len(s) < MaxSuggestions THEN Len(s) ELSE MaxSuggestions)

\* Lines 114-125: JSON.parse throws on text that is not JSON, which the catch
\* block turns into the fallback; a parsed array is cut to 4 entries; any other
\* parsed value gives [].
AnalyzeParse(body) ==
    IF BodyText(body).kind = "garbage" THEN FALLBACK_SUGGESTIONS
    ELSE IF BodyText(body).kind = "array" THEN Slice4(BodyText(body).items)
    ELSE <<>>

\* The call of analyzeImageForPrompts: not made, awaiting retry(), returned
\* value, or thrown.
AnalyzeIdle == [pc |-> "idle", value |-> <<>>, err |-> ""]
AnalyzeAwaits == [pc |-> "retry", value |-> <<>>, err |-> ""]
AnalyzeReturned(v) == [pc |-> "returned", value |-> v, err |-> ""]
AnalyzeThrew == [pc |-> "threw", value |-> <<>>, err |-> MsgNoKey]

\* What a call of analyzeImageForPrompts ends with: it throws when there is no
\* key; otherwise it returns the parsed response, or the fallback when retry
\* threw.
AnalyzeOutcomes(key) ==
    IF key = NoKey THEN {[threw |-> TRUE, value |-> <<>>]}
    ELSE {[threw |-> FALSE, value |-> AnalyzeParse(b)] : b \in Bodies}
         \cup {[threw |-> FALSE, value |-> FALLBACK_SUGGESTIONS]}

\* A second piece of art, and the suggestions a response about it is made of:
\* the remote call is given the image and describes that image.
OtherImages == {[data |-> "data:image/jpeg;base64,OTHER", width |-> 3, height |-> 4]}

OtherPool == <<"t1", "t2", "t3", "t4", "t5">>

About(image, value) ==
    IF image \in {img.data : img \in OtherImages}
    THEN [k \in 1..Len(value) |->
            IF \E i \in 1..Len(SuggestionPool) : SuggestionPool[i] = value[k]
            THEN OtherPool[CHOOSE i \in 1..Len(SuggestionPool) : SuggestionPool[i] = value[k]]
            ELSE value[k]]
    ELSE value

\* What analyzeImageForPrompts(image, vibe) ends with.
AnalyzeOutcomesFor(key, image) ==
    {[o EXCEPT !.value = About(image, o.value)] : o \in AnalyzeOutcomes(key)}

(***************************************************************************)
(* regenerateSinglePrompt.                                                 *)
(***************************************************************************)
REGEN_EMPTY_FALLBACK == "A creative environment for this art."
REGEN_CATCH_FALLBACK == "A creative environment suitable for this artwork."

\* Lines 158-163: JSON.parse throws on text that is not JSON, which the catch
\* block turns into its fallback string; the first entry of a parsed non-empty
\* array is returned; any other parsed value gives the other fallback string.
RegenParse(body) ==
    IF BodyText(body).kind = "garbage" THEN REGEN_CATCH_FALLBACK
    ELSE IF BodyText(body).kind = "array" /\ Len(BodyText(body).items) > 0
         THEN BodyText(body).items[1]
    ELSE REGEN_EMPTY_FALLBACK

\* The call of regenerateSinglePrompt: not made, awaiting retry(), returned
\* value, or thrown.
RegenIdle == [pc |-> "idle", value |-> "", err |-> ""]
RegenAwaits == [pc |-> "retry", value |-> "", err |-> ""]
RegenReturned(v) == [pc |-> "returned", value |-> v, err |-> ""]
RegenThrew == [pc |-> "threw", value |-> "", err |-> MsgNoKey]

\* A catch block that lets the error of retry() escape.
RegenCatchRethrows == RegenThrew

\* catch (e) { return "A creative environment suitable for this artwork." }
RegenCatch == RegenReturned(REGEN_CATCH_FALLBACK)

\* What a call of regenerateSinglePrompt ends with.
RegenOutcomes(key) ==
    IF key = NoKey THEN {[threw |-> TRUE, value |-> ""]}
    ELSE {[threw |-> FALSE, value |-> RegenParse(b)] : b \in Bodies}
         \cup {[threw |-> FALSE, value |-> REGEN_CATCH_FALLBACK]}

\* suggestions.map(s => ({ id: crypto.randomUUID(), text: s }))
NewPrompts(suggestions, n) ==
    [k \in 1..Len(suggestions) |-> [id |-> Uuid(n + k), text |-> suggestions[k]]]

\* A flattening that takes the jobs from the last to the first.
RECURSIVE FlatReversed(_)
FlatReversed(outs) ==
    IF outs = <<>> THEN <<>> ELSE FlatReversed(Tail(outs)) \o Head(outs)

\* batchResults.flat()
RECURSIVE Flat(_)
Flat(outs) == IF outs = <<>> THEN <<>> ELSE Head(outs) \o Flat(Tail(outs))

(***************************************************************************)
(* generateMockup.                                                         *)
(***************************************************************************)
MsgNoImages == "No images were generated. Please try a different prompt or image."

\* What the image part of a response carries.
Payloads == {"A", "B"}

\* `data:image/png;base64,${part.inlineData.data}`
DataUrl(data) == <<"data:image/png;base64,", data>>

\* A slot is one callback of Array.from({ length: settings.count }).map:
\*   pc   "call" its remote call is in flight; "backoff" in a wait of retry;
\*        "done" settled
\*   rt   its own retry() call
\*   out  what it resolved with: <<>> for null, or <<url>>
SlotStart == [pc |-> "call", rt |-> RetryEnter(DefaultRetries), out |-> <<>>]

\* The remote call of a slot resolved: the first image part becomes a data
\* URL; a response without one gives null.
SlotResolved(slot, hasImage, data) ==
    [pc |-> "done", rt |-> RetryReturn(slot.rt),
     out |-> IF hasImage THEN <<DataUrl(data)>> ELSE <<>>]

\* The remote call of a slot rejected with e: retry waits, or throws and the
\* slot's catch block returns null.
SlotRejected(slot, e) ==
    IF RetryCatch(slot.rt, DefaultRetries, DefaultBaseDelay, e).pc = "wait"
    THEN [slot EXCEPT !.pc = "backoff",
                      !.rt = RetryCatch(slot.rt, DefaultRetries, DefaultBaseDelay, e)]
    ELSE [pc |-> "done",
          rt |-> RetryCatch(slot.rt, DefaultRetries, DefaultBaseDelay, e),
          out |-> <<>>]

\* The backoff wait of a slot is over.
SlotWoken(slot) ==
    [slot EXCEPT !.pc = "call", !.rt = RetryWake(slot.rt, DefaultRetries)]

SlotOuts(slots) == [k \in 1..Len(slots) |-> slots[k].out]

SlotsDone(slots) == \A k \in 1..Len(slots) : slots[k].pc = "done"

\* The call of generateMockup: not made, awaiting Promise.all over its slots,
\* returned value, or thrown error.
GenIdle == [pc |-> "idle", slots |-> <<>>, value |-> <<>>, err |-> ""]

\* An entry that starts the slots whether or not there is a key.
GenEnterUnchecked(key, count) ==
    [pc |-> "slots", slots |-> [k \in 1..count |-> SlotStart], value |-> <<>>,
     err |-> ""]

\* Lines 173-235: without a key the call throws before anything else;
\* otherwise every slot callback runs to its await of retry().
GenEnter(key, count) ==
    IF key = NoKey
    THEN [pc |-> "threw", slots |-> <<>>, value |-> <<>>, err |-> MsgNoKey]
    ELSE [pc |-> "slots", slots |-> [k \in 1..count |-> SlotStart],
          value |-> <<>>, err |-> ""]

\* A completion that throws as soon as one slot gave null.
GenSettleAllOrNothing(slots) ==
    IF \E k \in 1..Len(slots) : slots[k].out = <<>>
    THEN [pc |-> "threw", slots |-> slots, value |-> <<>>, err |-> MsgNoImages]
    ELSE [pc |-> "returned", slots |-> slots, value |-> Flat(SlotOuts(slots)),
          err |-> ""]

\* Lines 275-284, once Promise.all has resolved: the non-null slots in slot
\* order, or the no-images error when there is none.
GenSettle(slots) ==
    IF Flat(SlotOuts(slots)) = <<>>
    THEN [pc |-> "threw", slots |-> slots, value |-> <<>>, err |-> MsgNoImages]
    ELSE [pc |-> "returned", slots |-> slots, value |-> Flat(SlotOuts(slots)),
          err |-> ""]

\* The call after a step of one of its slots.
GenAfter(slots) ==
    IF SlotsDone(slots) THEN GenSettle(slots)
    ELSE [pc |-> "slots", slots |-> slots, value |-> <<>>, err |-> ""]

(***************************************************************************)
(* handleGenerateBatch.                                                    *)
(***************************************************************************)
NoClosure == <<>>

\* The render-time values the handler and its job callbacks read.
Closure ==
    [sourceImage |-> sourceImage,
     editablePrompts |-> editablePrompts,
     selectedFrames |-> selectedFrames,
     selectedLighting |-> selectedLighting,
     selectedTextures |-> selectedTextures,
     settings |-> settings]

\* An assignment that clamps to the last element instead of wrapping around.
RoundRobinClamp(arr, index) == arr[IF index < Len(arr) THEN index + 1 ELSE Len(arr)]

\* arr[index % arr.length], index counted from 0
RoundRobin(arr, index) == arr[(index % Len(arr)) + 1]

\* Job settings whose constraints are read from the selectors as they are
\* when the job builds them.
BatchSettingsLive(c, index) ==
    [c.settings EXCEPT
        !.prompt = c.editablePrompts[index + 1].text,
        !.count = 1,
        !.frameStyle = RoundRobin(selectedFrames, index),
        !.lighting = RoundRobin(selectedLighting, index),
        !.wallTexture = RoundRobin(selectedTextures, index)]

\* Batch settings that keep the count of the base settings.
BatchSettingsKeepCount(c, index) ==
    [c.settings EXCEPT
        !.prompt = c.editablePrompts[index + 1].text,
        !.frameStyle = RoundRobin(c.selectedFrames, index),
        !.lighting = RoundRobin(c.selectedLighting, index),
        !.wallTexture = RoundRobin(c.selectedTextures, index)]

\* const batchSettings = { ...settings, prompt, count: 1, frameStyle, lighting,
\* wallTexture } for the job at `index` (from 0).
BatchSettings(c, index) ==
    [c.settings EXCEPT
        !.prompt = c.editablePrompts[index + 1].text,
        !.count = 1,
        !.frameStyle = RoundRobin(c.selectedFrames, index),
        !.lighting = RoundRobin(c.selectedLighting, index),
        !.wallTexture = RoundRobin(c.selectedTextures, index)]

NoReq == <<>>

\* A job is the promise of one callback of editablePrompts.map:
\*   pc    "stagger" in the 2500 ms wait; "call" its remote call is in flight;
\*         "backoff" in a wait of retry; "done" settled
\*   wake  when the timer it waits for is due
\*   req   the batchSettings it built, while its callback runs
\*   rt    the retry() call inside generateMockup
\*   out   the array the promise resolved with
JobStagger(t) ==
    [pc |-> "stagger", wake |-> t + StaggerMs, req |-> NoReq, rt |-> RetryIdle,
     out |-> <<>>]

JobDone(out) ==
    [pc |-> "done", wake |-> 0, req |-> NoReq, rt |-> RetryIdle, out |-> out]

\* if (index > 0) await new Promise(resolve => setTimeout(resolve, 2500))
StaggerDelay(index) == IF index > 0 THEN StaggerMs ELSE 0

\* Lines 374-389 and generateMockup up to its first await: the job builds its
\* settings and calls generateMockup, which throws at once without a key
\* (caught by the job: it resolves with []) and otherwise starts the one
\* retried remote call that count = 1 asks for.
JobDispatch(c, index, key) ==
    IF key = NoKey
    THEN JobDone(<<>>)
    ELSE [pc |-> "call", wake |-> 0, req |-> BatchSettings(c, index),
          rt |-> RetryEnter(DefaultRetries), out |-> <<>>]

\* The job callback up to its first await.
JobStart(c, index, key, t) ==
    IF StaggerDelay(index) > 0
    THEN [JobStagger(t) EXCEPT !.wake = t + StaggerDelay(index)]
    ELSE JobDispatch(c, index, key)

\* images.map(img => ({ id, imageUrl, prompt, createdAt, isHighRes }))
JobResult(c, index, img, id, t) ==
    [id |-> id,
     imageUrl |-> img,
     prompt |-> c.editablePrompts[index + 1].text,
     createdAt |-> t,
     isHighRes |-> (c.settings.imageSize = "4K")]

ImagePayload == "data:image/png;base64,OUT"

\* The remote call of a job resolved: retry returns the response.  With an
\* image part generateMockup returns one data URL and the job resolves with one
\* result; without, the slot is null, generateMockup throws "No images were
\* generated" and the job resolves with [].
JobResolved(c, index, job, hasImage, id, t) ==
    IF hasImage
    THEN JobDone(<<JobResult(c, index, ImagePayload, id, t)>>)
    ELSE JobDone(<<>>)

\* The remote call of a job rejected with e: retry either starts a backoff wait
\* or throws, and then the slot is null and the job resolves with [].
JobRejected(job, e, t) ==
    IF RetryCatch(job.rt, DefaultRetries, DefaultBaseDelay, e).pc = "wait"
    THEN [job EXCEPT
            !.pc = "backoff",
            !.rt = RetryCatch(job.rt, DefaultRetries, DefaultBaseDelay, e),
            !.wake = t + RetryDelay(DefaultBaseDelay, job.rt.i)]
    ELSE JobDone(<<>>)

\* The backoff wait of a job is over: retry invokes the remote call again.
JobWoken(job) ==
    [job EXCEPT !.pc = "call", !.wake = 0, !.rt = RetryWake(job.rt, DefaultRetries)]

JobOuts(js) == [k \in 1..Len(js) |-> js[k].out]

AllDone(js) == \A k \in 1..Len(js) : js[k].pc = "done"

BatchEmptyAlert == "Batch generation encountered errors."

\* A store that puts the new results after the stored ones.
BatchResultsBehind(js, prev) ==
    IF Flat(JobOuts(js)) = <<>> THEN prev ELSE prev \o Flat(JobOuts(js))

\* setResults(prev => [...flatResults, ...prev]), or `prev` when the batch
\* threw before it.
BatchResults(js, prev) ==
    IF Flat(JobOuts(js)) = <<>> THEN prev ELSE Flat(JobOuts(js)) \o prev

\* An empty batch that reports nothing.
BatchAlertsSilent(js, prev) == prev

\* catch (e) { alert("Batch generation encountered errors.") }
BatchAlerts(js, prev) ==
    IF Flat(JobOuts(js)) = <<>> THEN Append(prev, BatchEmptyAlert) ELSE prev

(***************************************************************************)
(* Timers.  A timer is due once the clock has reached its deadline; timers *)
(* fire in deadline order and the stagger timers of a batch, all set in    *)
(* the same turn with the same delay, in index order.                      *)
(***************************************************************************)
Waiting(job) == job.pc \in {"stagger", "backoff"}

Deadlines == {jobs[k].wake : k \in {x \in 1..Len(jobs) : Waiting(jobs[x])}}

MinOf(S) == CHOOSE x \in S : \A y \in S : x <= y

CanFire(k) ==
    /\ Waiting(jobs[k])
    /\ jobs[k].wake <= now
    /\ \A x \in 1..Len(jobs) :
          Waiting(jobs[x]) =>
             /\ jobs[x].wake >= jobs[k].wake
             /\ (jobs[x].wake = jobs[k].wake /\ jobs[x].pc = "stagger"
                 /\ jobs[k].pc = "stagger") => x >= k

(***************************************************************************)
(* The credential: normalizeApiKey, getEnvApiKey, getApiKey, checkApiKey.  *)
(* A raw value is a sequence of pieces, a piece being a blank or a run of  *)
(* other characters; undefined, null and '' are the empty sequence.        *)
(***************************************************************************)
Blank == " "

Placeholder == <<"your_gemini_api_key_here">>

\* String.prototype.trim
RECURSIVE Trim(_)
Trim(s) ==
    IF s = <<>> THEN s
    ELSE IF Head(s) = Blank THEN Trim(Tail(s))
    ELSE IF s[Len(s)] = Blank THEN Trim(SubSeq(s, 1, Len(s) - 1))
    ELSE s

\* if (!key) return null; const trimmed = key.trim();
\* if (!trimmed || trimmed === 'your_gemini_api_key_here') return null;
\* return trimmed
normalizeApiKey(key) ==
    IF key = <<>> THEN NoKey
    ELSE IF Trim(key) = <<>> \/ Trim(key) = Placeholder THEN NoKey
    ELSE Trim(key)

\* The raw values a source can hold.
RawKeys ==
    {<<>>, <<Blank>>, Placeholder, SomeKey, <<Blank>> \o SomeKey \o <<Blank>>}

\* window.aistudio: each of its two methods is missing (<<>>) or answers with
\* the value given; an object without either is as good as none.
Studios ==
    [getApiKey : {<<>>} \cup {<<r>> : r \in RawKeys},
     hasSelectedApiKey : {<<>>, <<FALSE>>, <<TRUE>>}]

NoStudio == [getApiKey |-> <<>>, hasSelectedApiKey |-> <<>>]

\* env      process.env.API_KEY || process.env.GEMINI_API_KEY
\* studio   window.aistudio
\* stored   localStorage.getItem('gemini_api_key')
Hosts == [env : RawKeys, studio : Studios, stored : RawKeys]

getEnvApiKey(h) == normalizeApiKey(h.env)

\* getApiKey: the environment, then window.aistudio.getApiKey(), then
\* localStorage.
getApiKey(h) ==
    IF getEnvApiKey(h) # NoKey THEN getEnvApiKey(h)
    ELSE IF /\ h.studio.getApiKey # <<>>
            /\ normalizeApiKey(h.studio.getApiKey[1]) # NoKey
         THEN normalizeApiKey(h.studio.getApiKey[1])
    ELSE normalizeApiKey(h.stored)

\* checkApiKey: the environment, then window.aistudio.hasSelectedApiKey(),
\* then localStorage.
checkApiKey(h) ==
    \/ getEnvApiKey(h) # NoKey
    \/ h.studio.hasSelectedApiKey = <<TRUE>>
    \/ normalizeApiKey(h.stored) # NoKey

\* A host on which getApiKey() gives `key` and the application shows its main
\* screen: the key in the environment, or none anywhere and a broker that
\* says one is selected.
HostGiving(key) ==
    IF key = NoKey
    THEN [env |-> <<>>,
          studio |-> [getApiKey |-> <<>>, hasSelectedApiKey |-> <<TRUE>>],
          stored |-> <<>>]
    ELSE [env |-> key, studio |-> NoStudio, stored |-> <<>>]

NoPrompt == <<>>

(***************************************************************************)
(* The text generateMockup composes.  A text is a sequence of words, the   *)
(* punctuation left out except the colon of a label; a value set into a    *)
(* template (the scene, a style name, the print size, the negative prompt) *)
(* is one word.                                                            *)
(***************************************************************************)
qualityPrefix ==
    <<"Award-winning", "editorial", "photography", "shot", "on", "35mm", "film",
      "Kodak", "Portra", "400", "aesthetic",
      "Features:", "Heavy", "natural", "film", "grain", "slight", "chromatic",
      "aberration", "organic", "color", "grading", "imperfect", "lens",
      "characteristics",
      "The", "final", "image", "must", "look", "like", "a", "raw", "unpolished",
      "photograph", "not", "a", "3D", "render",
      "8k", "resolution", "hyperrealistic", "detailed", "texture">>

\* settings.printSize ? settings.printSize : "A3"
sizeContext(s) == IF s.printSize # "" THEN s.printSize ELSE "A3"

\* The fixed interaction clause.
physicalInteraction ==
    <<"Ensure", "the", "environment's", "lighting", "interacts", "with", "the",
      "artwork", "Cast", "realistic", "shadows", "ONTO", "the", "print",
      "surface", "If", "there", "is", "glass", "show", "subtle", "reflections",
      "OVER", "the", "artwork">>

\* The three branches on settings.frameStyle.
frameContext(s) ==
    IF s.frameStyle = "None"
    THEN <<"The", "attached", "image", "is", "taped", "or", "pasted",
           "directly", "onto", "the", "wall", "as", "a", sizeContext(s),
           "poster", "Show", "paper", "texture", "slight", "curling", "at",
           "corners", "and", "surface", "shadows", "falling", "across", "the",
           "image">>
    ELSE IF s.frameStyle = "Auto"
    THEN <<"The", "attached", "image", "is", "professionally", "framed", "in",
           "a", "style", "that", "perfectly", "matches", "the",
           "environment's", "aesthetic", sizeContext(s), "size", "Include",
           "realistic", "glass", "reflections", "and", "frame", "shadows">>
    ELSE <<"The", "attached", "image", "is", "physically", "framed", "in", "a",
           s.frameStyle, "frame", sizeContext(s), "size", "hanging", "on",
           "the", "wall", "Include", "realistic", "glass", "reflections",
           "and", "frame", "shadows">>

LightingInstruction(s) == <<"Lighting", "Condition:", s.lighting>>

TextureInstruction(s) == <<"Wall", "Material:", s.wallTexture>>

InferInstruction ==
    <<"Lighting", "and", "Wall", "Material", "should", "be", "inferred",
      "naturally", "from", "the", "scene", "description">>

\* let envContext = ""; two conditional +=; if (!envContext) envContext = ...
envContext(s) ==
    LET explicit ==
            (IF s.lighting # "Auto" THEN LightingInstruction(s) ELSE <<>>)
            \o (IF s.wallTexture # "Auto" THEN TextureInstruction(s) ELSE <<>>)
    IN  IF explicit = <<>> THEN InferInstruction ELSE explicit

colorGrade ==
    <<"Apply", "a", "cohesive", "cinematic", "color", "grade", "that", "warps",
      "the", "colors", "of", "the", "inserted", "artwork", "slightly", "to",
      "match", "the", "ambient", "light", "temperature", "of", "the", "room",
      "The", "artwork", "should", "not", "look", "like", "a", "digital",
      "overlay">>

\* The texts that are empty after trim(), of those a negative prompt is
\* drawn from.
BlankTexts == {"", " "}

\* The template of finalPrompt, and the negative prompt added to it when it
\* is not blank.
FinalPrompt(s) ==
    qualityPrefix
    \o <<"SCENE:", s.prompt>>
    \o <<"DETAILS:">> \o envContext(s)
    \o <<"PLACEMENT:">> \o frameContext(s)
    \o <<"PHYSICS:">> \o physicalInteraction
    \o <<"COLOR:">> \o colorGrade
    \o (IF s.negativePrompt \notin BlankTexts
        THEN <<"Do", "NOT", "include:", s.negativePrompt>> ELSE <<>>)

(***************************************************************************)
(* The application after construction: App's useState initialisers, for a  *)
(* given credential and a given content of localStorage.                   *)
(***************************************************************************)
\* The state that does not depend on the credential.
AppState(saved) ==
    /\ now = 0
    /\ uuids = 0
    /\ sourceImage = NoImage
    /\ settings = InitialSettings(saved)
    /\ selectedFrames = <<"Auto">>
    /\ selectedLighting = <<"Auto">>
    /\ selectedTextures = <<"Auto">>
    /\ editablePrompts = <<[id |-> IdInitial, text |-> INITIAL_PRESET0]>>
    /\ isAnalyzing = FALSE
    /\ isGenerating = FALSE
    /\ loadingMessage = <<>>
    /\ results = <<>>
    /\ alerts = <<>>
    /\ analyses = <<>>
    /\ closure = NoClosure
    /\ jobs = <<>>
    /\ batchStartedAt = 0
    /\ batches = 0
    /\ analyze = AnalyzeIdle
    /\ regen = RegenIdle
    /\ gen = GenIdle
    /\ upscalingId = NoId
    /\ upscales = <<>>
    /\ regens = <<>>
    /\ finalPrompt = NoPrompt
    /\ work = 0

\* The application on its main screen, getApiKey() giving `key`.
AppConstructed(key, saved) ==
    /\ apiKey = key
    /\ host = HostGiving(key)
    /\ hasKey = TRUE
    /\ AppState(saved)

\* The application as mounted on the host `h`, before its init effect has
\* run: useState(false) for hasKey.
AppMounted(h, saved) ==
    /\ apiKey = getApiKey(h)
    /\ host = h
    /\ hasKey = FALSE
    /\ AppState(saved)

\* No call of retry() is under study.
RetryUnused ==
    /\ retries = DefaultRetries
    /\ baseDelay = DefaultBaseDelay
    /\ rt = RetryIdle
    /\ fnLog = <<>>

(***************************************************************************)
(* User actions and callbacks of App.                                      *)
(***************************************************************************)
JpegAlert == "Please upload a JPEG image."

\* processFile with a file that is not a JPEG: an alert and nothing else.
UploadOtherFile ==
    /\ work < MaxWork
    /\ work' = work + 1
    /\ alerts' = Append(alerts, JpegAlert)
    /\ UNCHANGED <<sideVars, retryVars, envVars, asyncVars, sourceImage, settings,
                   selectedFrames, selectedLighting, selectedTextures,
                   editablePrompts, isAnalyzing, isGenerating, loadingMessage,
                   results>>

\* img.onload: the aspect ratio follows the shape of the image.
AspectFor(img) ==
    IF img.width > img.height THEN "4:3"
    ELSE IF img.height > img.width THEN "3:4"
    ELSE "1:1"

\* processFile with a JPEG, from reader.onloadend on: the image becomes the
\* source image, handleMagicAnalysis(result) runs up to its await (the
\* analyzing flag, the placeholder entry, the call of analyzeImageForPrompts)
\* and the decoded image sets the aspect ratio.
ProcessFile ==
    /\ work < MaxWork
    /\ work' = work + 1
    /\ \E img \in Images :
          /\ sourceImage' = img.data
          /\ analyses' = Append(analyses, [image |-> img.data])
          /\ settings' = [settings EXCEPT !.aspectRatio = AspectFor(img)]
    /\ isAnalyzing' = TRUE
    /\ editablePrompts' = <<[id |-> IdLoading, text |-> AnalyzingText]>>
    /\ UNCHANGED <<sideVars, retryVars, envVars, closure, jobs, batchStartedAt, batches, analyze,
                   selectedFrames,
                   selectedLighting, selectedTextures, isGenerating,
                   loadingMessage, results, alerts>>

RemoveAt(s, k) == SubSeq(s, 1, k - 1) \o SubSeq(s, k + 1, Len(s))

\* handleMagicAnalysis after its await: analyzeImageForPrompts returned or
\* threw.
AnalysisSettles ==
    /\ analyses # <<>>
    /\ \E k \in 1..Len(analyses) :
       \E o \in AnalyzeOutcomesFor(apiKey, analyses[k].image) :
          /\ analyses' = RemoveAt(analyses, k)
          /\ IF ~o.threw /\ Len(o.value) > 0
             THEN /\ editablePrompts' = NewPrompts(o.value, uuids)
                  /\ uuids' = uuids + Len(o.value)
             ELSE UNCHANGED <<sideVars, editablePrompts, uuids>>
    /\ isAnalyzing' = FALSE
    /\ UNCHANGED <<sideVars, retryVars, apiKey, now, closure, jobs, batchStartedAt, batches,
                   analyze, boundVars, sourceImage,
                   settings, selectedFrames, selectedLighting, selectedTextures,
                   isGenerating, loadingMessage, results, alerts>>

\* A pill of the frame selector is clicked.
ToggleFrame ==
    /\ \E opt \in FrameChoices :
          selectedFrames' = ToggleOption(selectedFrames, opt)
    /\ UNCHANGED <<sideVars, retryVars, envVars, asyncVars, boundVars, sourceImage, settings,
                   selectedLighting, selectedTextures, editablePrompts,
                   isAnalyzing, isGenerating, loadingMessage, results, alerts>>

\* A pill of the lighting selector is clicked.
ToggleLighting ==
    /\ \E opt \in LightingChoices :
          selectedLighting' = ToggleOption(selectedLighting, opt)
    /\ UNCHANGED <<sideVars, retryVars, envVars, asyncVars, boundVars, sourceImage, settings,
                   selectedFrames, selectedTextures, editablePrompts,
                   isAnalyzing, isGenerating, loadingMessage, results, alerts>>

\* A pill of the wall texture selector is clicked.
ToggleTexture ==
    /\ \E opt \in TextureChoices :
          selectedTextures' = ToggleOption(selectedTextures, opt)
    /\ UNCHANGED <<sideVars, retryVars, envVars, asyncVars, boundVars, sourceImage, settings,
                   selectedFrames, selectedLighting, editablePrompts,
                   isAnalyzing, isGenerating, loadingMessage, results, alerts>>

(***************************************************************************)
(* handleGenerateBatch.                                                    *)
(***************************************************************************)
\* The errors the generation call is made to fail with: one that retry
\* classifies as transient and one it classifies as terminal.
BatchErrors == {ErrOverloaded, ErrBadRequest}

\* A handler whose flags are reset after its last statement and not in a
\* finally block: the throw of an empty batch skips the reset.
BatchContinuesNoFinally(c, js) ==
    /\ jobs' = js
    /\ IF AllDone(js)
       THEN /\ closure' = NoClosure
            /\ results' = BatchResults(js, results)
            /\ alerts' = BatchAlerts(js, alerts)
            /\ isGenerating' = (Flat(JobOuts(js)) = <<>>)
            /\ loadingMessage' =
                  IF Flat(JobOuts(js)) = <<>> THEN <<Len(js), Len(js)>> ELSE <<>>
       ELSE /\ closure' = c
            /\ isGenerating' = TRUE
            /\ loadingMessage' = <<Len(js), Len(js)>>
            /\ UNCHANGED <<sideVars, results, alerts>>

\* What a step of the batch leaves behind, js being the jobs after the step.
\* While a job is pending the handler stays at `await Promise.all`.  When the
\* last job settles the handler runs to its end: the results are flattened in
\* index order and put in front of the stored ones, or the empty batch throws
\* and is reported by one alert; then the finally block resets the flags.
BatchContinues(c, js) ==
    /\ jobs' = js
    /\ IF AllDone(js)
       THEN /\ closure' = NoClosure
            /\ results' = BatchResults(js, results)
            /\ alerts' = BatchAlerts(js, alerts)
            /\ isGenerating' = FALSE
            /\ loadingMessage' = <<>>
       ELSE /\ closure' = c
            /\ isGenerating' = TRUE
            /\ loadingMessage' = <<Len(js), Len(js)>>
            /\ UNCHANGED <<sideVars, results, alerts>>

\* The Run Batch button (enabled with a source image, when neither generating
\* nor analyzing): handleGenerateBatch up to `await Promise.all`.  Every job
\* callback runs to its first await: job 0 calls generateMockup, the others
\* set their stagger timer.
GenerateBatch ==
    /\ sourceImage # NoImage
    /\ ~isGenerating
    /\ ~isAnalyzing
    /\ Len(editablePrompts) # 0
    /\ work + Len(editablePrompts) <= MaxWork
    /\ work' = work + Len(editablePrompts)
    /\ batchStartedAt' = now
    /\ batches' = batches + 1
    /\ BatchContinues(Closure,
          [k \in 1..Len(editablePrompts) |-> JobStart(Closure, k - 1, apiKey, now)])
    /\ UNCHANGED <<sideVars, retryVars, envVars, analyses, analyze, sourceImage, settings,
                   selectedFrames, selectedLighting, selectedTextures,
                   editablePrompts, isAnalyzing>>

\* The stagger timer of a job fires: the job builds its settings and calls
\* generateMockup.
StaggerElapses ==
    /\ \E k \in 1..Len(jobs) :
          /\ jobs[k].pc = "stagger"
          /\ CanFire(k)
          /\ BatchContinues(closure,
                [jobs EXCEPT ![k] = JobDispatch(closure, k - 1, apiKey)])
    /\ UNCHANGED <<sideVars, batchStartedAt, batches, analyze, retryVars, envVars, analyses,
                   boundVars, sourceImage, settings,
                   selectedFrames, selectedLighting, selectedTextures,
                   editablePrompts, isAnalyzing>>

\* The remote call of a job resolves, with or without an image part.
CallResolves ==
    /\ \E k \in 1..Len(jobs), hasImage \in BOOLEAN :
          /\ jobs[k].pc = "call"
          /\ uuids' = IF hasImage THEN uuids + 1 ELSE uuids
          /\ BatchContinues(closure,
                [jobs EXCEPT ![k] =
                    JobResolved(closure, k - 1, jobs[k], hasImage,
                                Uuid(uuids + 1), now)])
    /\ UNCHANGED <<sideVars, batchStartedAt, batches, analyze, retryVars, apiKey, now, analyses,
                   boundVars, sourceImage,
                   settings, selectedFrames, selectedLighting, selectedTextures,
                   editablePrompts, isAnalyzing>>

\* The remote call of a job rejects.
CallRejects ==
    /\ \E k \in 1..Len(jobs), e \in BatchErrors :
          /\ jobs[k].pc = "call"
          /\ BatchContinues(closure, [jobs EXCEPT ![k] = JobRejected(jobs[k], e, now)])
    /\ UNCHANGED <<sideVars, batchStartedAt, batches, analyze, retryVars, envVars, analyses,
                   boundVars, sourceImage, settings,
                   selectedFrames, selectedLighting, selectedTextures,
                   editablePrompts, isAnalyzing>>

\* The backoff timer of a job fires.
BackoffElapses ==
    /\ \E k \in 1..Len(jobs) :
          /\ jobs[k].pc = "backoff"
          /\ CanFire(k)
          /\ BatchContinues(closure, [jobs EXCEPT ![k] = JobWoken(jobs[k])])
    /\ UNCHANGED <<sideVars, batchStartedAt, batches, analyze, retryVars, envVars, analyses,
                   boundVars, sourceImage, settings,
                   selectedFrames, selectedLighting, selectedTextures,
                   editablePrompts, isAnalyzing>>

\* Time passes until the next timer is due.
Tick ==
    /\ Deadlines # {}
    /\ \A d \in Deadlines : d > now
    /\ now' = MinOf(Deadlines)
    /\ UNCHANGED <<sideVars, retryVars, apiKey, uuids, uiVars, asyncVars, boundVars>>

(***************************************************************************)
(* SpecBatch: the application from construction with the default settings: *)
(* an upload, its analysis and a batch whose remote calls resolve, reject  *)
(* and are retried.                                                        *)
(***************************************************************************)
InitBatch ==
    /\ RetryUnused
    /\ \E key \in {NoKey, SomeKey} : AppConstructed(key, <<>>)

NextBatch ==
    \/ UploadOtherFile
    \/ ProcessFile
    \/ AnalysisSettles
    \/ GenerateBatch
    \/ StaggerElapses
    \/ CallResolves
    \/ CallRejects
    \/ BackoffElapses
    \/ Tick

SpecBatch == InitBatch /\ [][NextBatch]_vars

(***************************************************************************)
(* SpecAssign: the application from construction with any stored settings: *)
(* an upload, its analysis, the constraint selectors (at any time, also    *)
(* while a batch runs) and a batch whose remote calls resolve.             *)
(***************************************************************************)
InitAssign ==
    /\ RetryUnused
    /\ \E saved \in SavedSettings : AppConstructed(SomeKey, saved)

NextAssign ==
    \/ ProcessFile
    \/ AnalysisSettles
    \/ ToggleFrame
    \/ ToggleLighting
    \/ ToggleTexture
    \/ GenerateBatch
    \/ StaggerElapses
    \/ CallResolves
    \/ Tick

SpecAssign == InitAssign /\ [][NextAssign]_vars

(***************************************************************************)
(* SpecRetry: one call of retry() with any parameters and any operation.   *)
(***************************************************************************)
InitRetry ==
    /\ retries \in 0..MaxRetries
    /\ baseDelay \in {TestBaseDelay, DefaultBaseDelay}
    /\ rt = RetryIdle
    /\ fnLog = <<>>
    /\ AppConstructed(SomeKey, <<>>)

\* retry(fn, retries, baseDelay) is called.
CallRetry ==
    /\ rt.pc = "idle"
    /\ rt' = RetryEnter(retries)
    /\ UNCHANGED <<retries, baseDelay, fnLog, appVars>>

\* The operation in flight resolves.
FnResolves ==
    /\ rt.pc = "await"
    /\ rt' = RetryReturn(rt)
    /\ fnLog' = Append(fnLog, FnOk)
    /\ UNCHANGED <<retries, baseDelay, appVars>>

\* The operation in flight rejects with e.
FnRejects ==
    /\ rt.pc = "await"
    /\ \E e \in Errors :
          /\ rt' = RetryCatch(rt, retries, baseDelay, e)
          /\ fnLog' = Append(fnLog, e)
    /\ UNCHANGED <<retries, baseDelay, appVars>>

\* The backoff timer fires.
WaitElapses ==
    /\ rt.pc = "wait"
    /\ rt' = RetryWake(rt, retries)
    /\ UNCHANGED <<retries, baseDelay, fnLog, appVars>>

NextRetry == CallRetry \/ FnResolves \/ FnRejects \/ WaitElapses

SpecRetry == InitRetry /\ [][NextRetry]_vars


(***************************************************************************)
(* SpecSuggest: one call of analyzeImageForPrompts, with or without a      *)
(* credential, its remote call going through retry() with the default      *)
(* parameters and answering with any body or any error.                    *)
(***************************************************************************)
InitSuggest ==
    /\ RetryUnused
    /\ \E key \in {NoKey, SomeKey} : AppConstructed(key, <<>>)

\* analyzeImageForPrompts is called: it throws without a key, otherwise it
\* enters retry().
CallAnalyze ==
    /\ analyze.pc = "idle"
    /\ IF apiKey = NoKey
       THEN /\ analyze' = AnalyzeThrew
            /\ UNCHANGED rt
       ELSE /\ analyze' = AnalyzeAwaits
            /\ rt' = RetryEnter(retries)
    /\ UNCHANGED <<sideVars, retries, baseDelay, fnLog, envVars, uiVars, analyses, closure,
                   jobs, batchStartedAt, batches, boundVars>>

\* generateContent resolves with a body (logged as the outcome of the call):
\* retry() returns it and the body is parsed.
ContentResolves ==
    /\ analyze.pc = "retry"
    /\ rt.pc = "await"
    /\ \E body \in Bodies :
          /\ analyze' = AnalyzeReturned(AnalyzeParse(body))
          /\ fnLog' = Append(fnLog, body)
    /\ rt' = RetryReturn(rt)
    /\ UNCHANGED <<sideVars, retries, baseDelay, envVars, uiVars, analyses, closure, jobs,
                   batchStartedAt, batches, boundVars>>

\* generateContent rejects with e: retry() waits, or throws into the catch
\* block, which returns the fallback.
ContentRejects ==
    /\ analyze.pc = "retry"
    /\ rt.pc = "await"
    /\ \E e \in Errors :
          /\ rt' = RetryCatch(rt, retries, baseDelay, e)
          /\ fnLog' = Append(fnLog, e)
    /\ analyze' = IF rt'.pc = "thrown"
                  THEN AnalyzeReturned(FALLBACK_SUGGESTIONS)
                  ELSE analyze
    /\ UNCHANGED <<sideVars, retries, baseDelay, envVars, uiVars, analyses, closure, jobs,
                   batchStartedAt, batches, boundVars>>

\* The backoff timer of retry() fires.
ContentBackoffElapses ==
    /\ analyze.pc = "retry"
    /\ rt.pc = "wait"
    /\ rt' = RetryWake(rt, retries)
    /\ UNCHANGED <<retries, baseDelay, fnLog, appVars>>

NextSuggest == CallAnalyze \/ ContentResolves \/ ContentRejects \/ ContentBackoffElapses

SpecSuggest == InitSuggest /\ [][NextSuggest]_vars

(***************************************************************************)
(* SpecService: the three remote-call entry points of geminiService, with  *)
(* or without a credential, one call at a time: analyzeImageForPrompts,    *)
(* regenerateSinglePrompt, and generateMockup with any count of slots,     *)
(* their remote calls answering with any body or failing.                  *)
(***************************************************************************)
InitService ==
    /\ RetryUnused
    /\ \E key \in {NoKey, SomeKey} : AppConstructed(key, <<>>)

\* No entry point has been called yet.
NoCallYet == analyze.pc = "idle" /\ regen.pc = "idle" /\ gen.pc = "idle"

\* regenerateSinglePrompt is called: it throws without a key, otherwise it
\* enters retry().
CallRegenerate ==
    /\ regen.pc = "idle"
    /\ IF apiKey = NoKey
       THEN /\ regen' = RegenThrew
            /\ UNCHANGED rt
       ELSE /\ regen' = RegenAwaits
            /\ rt' = RetryEnter(retries)
    /\ UNCHANGED <<hostVars, retries, baseDelay, fnLog, envVars, uiVars, asyncVars, boundVars,
                   gen, upscalingId, upscales, regens>>

\* generateContent resolves with a body: retry() returns it and the body is
\* parsed.
RegenResolves ==
    /\ regen.pc = "retry"
    /\ rt.pc = "await"
    /\ \E body \in Bodies :
          /\ regen' = RegenReturned(RegenParse(body))
          /\ fnLog' = Append(fnLog, body)
    /\ rt' = RetryReturn(rt)
    /\ UNCHANGED <<hostVars, retries, baseDelay, envVars, uiVars, asyncVars, boundVars,
                   gen, upscalingId, upscales, regens>>

\* generateContent rejects with e: retry() waits, or throws into the catch
\* block.
RegenRejects ==
    /\ regen.pc = "retry"
    /\ rt.pc = "await"
    /\ \E e \in Errors :
          /\ rt' = RetryCatch(rt, retries, baseDelay, e)
          /\ fnLog' = Append(fnLog, e)
    /\ regen' = IF rt'.pc = "thrown" THEN RegenCatch ELSE regen
    /\ UNCHANGED <<hostVars, retries, baseDelay, envVars, uiVars, asyncVars, boundVars,
                   gen, upscalingId, upscales, regens>>

\* The backoff timer of retry() fires.
RegenBackoffElapses ==
    /\ regen.pc = "retry"
    /\ rt.pc = "wait"
    /\ rt' = RetryWake(rt, retries)
    /\ UNCHANGED <<retries, baseDelay, fnLog, appVars>>

\* generateMockup is called with settings.count = count.
CallGenerate ==
    /\ gen.pc = "idle"
    /\ \E count \in 1..MaxSlots : gen' = GenEnter(apiKey, count)
    /\ UNCHANGED <<hostVars, retryVars, envVars, uiVars, asyncVars, boundVars,
                   regen, upscalingId, upscales, regens>>

\* The remote call of a slot resolves, with or without an image part.
SlotResolves ==
    /\ gen.pc = "slots"
    /\ \E k \in 1..Len(gen.slots), hasImage \in BOOLEAN, data \in Payloads :
          /\ gen.slots[k].pc = "call"
          /\ gen' = GenAfter([gen.slots EXCEPT
                                ![k] = SlotResolved(gen.slots[k], hasImage, data)])
    /\ UNCHANGED <<hostVars, retryVars, envVars, uiVars, asyncVars, boundVars,
                   regen, upscalingId, upscales, regens>>

\* The remote call of a slot rejects.
SlotRejects ==
    /\ gen.pc = "slots"
    /\ \E k \in 1..Len(gen.slots), e \in BatchErrors :
          /\ gen.slots[k].pc = "call"
          /\ gen' = GenAfter([gen.slots EXCEPT ![k] = SlotRejected(gen.slots[k], e)])
    /\ UNCHANGED <<hostVars, retryVars, envVars, uiVars, asyncVars, boundVars,
                   regen, upscalingId, upscales, regens>>

\* The backoff timer of a slot fires.
SlotBackoffElapses ==
    /\ gen.pc = "slots"
    /\ \E k \in 1..Len(gen.slots) :
          /\ gen.slots[k].pc = "backoff"
          /\ gen' = GenAfter([gen.slots EXCEPT ![k] = SlotWoken(gen.slots[k])])
    /\ UNCHANGED <<hostVars, retryVars, envVars, uiVars, asyncVars, boundVars,
                   regen, upscalingId, upscales, regens>>

NextService ==
    \/ NoCallYet /\ CallAnalyze
    \/ ContentResolves
    \/ ContentRejects
    \/ ContentBackoffElapses
    \/ NoCallYet /\ CallRegenerate
    \/ RegenResolves
    \/ RegenRejects
    \/ RegenBackoffElapses
    \/ NoCallYet /\ CallGenerate
    \/ SlotResolves
    \/ SlotRejects
    \/ SlotBackoffElapses

SpecService == InitService /\ [][NextService]_vars

(***************************************************************************)
(* handleUpscale.                                                          *)
(***************************************************************************)
UpscaleAlert == "Upscale failed."

\* Upscale settings that keep the count of the base settings.
UpscaleSettingsKeepCount(base, result) ==
    [base EXCEPT
        !.prompt = result.prompt,
        !.imageSize = "4K",
        !.frameStyle = "Auto",
        !.lighting = "Auto",
        !.wallTexture = "Auto"]

\* const upscaleSettings = { ...settings, prompt: result.prompt, count: 1,
\* imageSize: "4K", frameStyle: "Auto", lighting: "Auto", wallTexture: "Auto" }
UpscaleSettings(base, result) ==
    [base EXCEPT
        !.prompt = result.prompt,
        !.count = 1,
        !.imageSize = "4K",
        !.frameStyle = "Auto",
        !.lighting = "Auto",
        !.wallTexture = "Auto"]

\* A call of handleUpscale from its await of generateMockup on:
\*   result  the result the button belongs to
\*   req     the upscaleSettings it built
\*   pc      "call" the remote call of its one slot is in flight; "backoff" in
\*           a wait of retry; "done" the handler has ended
\*   rt      the retry() call inside generateMockup
\*   out     <<newResult>> once it succeeded, <<>> otherwise
UpscaleStart(base, result) ==
    [result |-> result, req |-> UpscaleSettings(base, result), pc |-> "call",
     rt |-> RetryEnter(DefaultRetries), out |-> <<>>]

\* const newResult = { id, imageUrl: images[0], prompt: result.prompt,
\* createdAt, isHighRes: true }
UpscaleResult(result, img, id, t) ==
    [id |-> id, imageUrl |-> img, prompt |-> result.prompt, createdAt |-> t,
     isHighRes |-> TRUE]

\* A store that puts the new result in the place of the one it came from.
UpscaleStoreInPlace(u, new, prev) ==
    [k \in 1..Len(prev) |-> IF prev[k].id = u.result.id THEN new ELSE prev[k]]

\* setResults(prev => [newResult, ...prev])
UpscaleStore(u, new, prev) == <<new>> \o prev

\* A failure that is only logged.
UpscaleFailureSilent(prev) == prev

\* catch (e) { alert("Upscale failed.") }
UpscaleFailure(prev) == Append(prev, UpscaleAlert)

InFlight(u) == u.pc \in {"call", "backoff"}

\* The handler ends: with an image the new result is stored in front,
\* otherwise generateMockup threw and the alert is shown; the finally block
\* clears the marker.
UpscaleEnds(k, hasImage) ==
    /\ upscalingId' = NoId
    /\ IF hasImage
       THEN LET new == UpscaleResult(upscales[k].result, ImagePayload,
                                     Uuid(uuids + 1), now)
            IN /\ upscales' = [upscales EXCEPT ![k].pc = "done", ![k].out = <<new>>]
               /\ results' = UpscaleStore(upscales[k], new, results)
               /\ uuids' = uuids + 1
               /\ UNCHANGED alerts
       ELSE /\ upscales' = [upscales EXCEPT ![k].pc = "done"]
            /\ alerts' = UpscaleFailure(alerts)
            /\ UNCHANGED <<results, uuids>>

\* The upscale button of a draft result that is not shown as being upscaled:
\* handleUpscale up to its await, explored while less work than `limit` has
\* been started.
UpscaleClicked(limit) ==
    /\ sourceImage # NoImage
    /\ apiKey # NoKey
    /\ work < limit
    /\ work' = work + 1
    /\ \E k \in 1..Len(results) :
          /\ ~results[k].isHighRes
          /\ upscalingId # results[k].id
          /\ upscalingId' = results[k].id
          /\ upscales' = Append(upscales, UpscaleStart(settings, results[k]))
    /\ UNCHANGED <<hostVars, retryVars, envVars, uiVars, asyncVars, regen, gen, regens>>

HandleUpscale == UpscaleClicked(MaxWork)

\* The remote call of an upscale resolves, with or without an image part.
UpscaleResolves ==
    /\ \E k \in 1..Len(upscales), hasImage \in BOOLEAN :
          /\ upscales[k].pc = "call"
          /\ UpscaleEnds(k, hasImage)
    /\ UNCHANGED <<hostVars, retryVars, apiKey, now, asyncVars, boundVars, regen, gen, regens,
                   sourceImage, settings, selectedFrames, selectedLighting,
                   selectedTextures, editablePrompts, isAnalyzing, isGenerating,
                   loadingMessage>>

\* The remote call of an upscale rejects: retry waits, or throws and the
\* handler ends in its catch block.
UpscaleRejects ==
    /\ \E k \in 1..Len(upscales), e \in BatchErrors :
          /\ upscales[k].pc = "call"
          /\ IF RetryCatch(upscales[k].rt, DefaultRetries, DefaultBaseDelay, e).pc = "wait"
             THEN /\ upscales' =
                        [upscales EXCEPT
                            ![k].pc = "backoff",
                            ![k].rt = RetryCatch(@, DefaultRetries, DefaultBaseDelay, e)]
                  /\ UNCHANGED <<upscalingId, results, alerts, uuids>>
             ELSE UpscaleEnds(k, FALSE)
    /\ UNCHANGED <<hostVars, retryVars, apiKey, now, asyncVars, boundVars, regen, gen, regens,
                   sourceImage, settings, selectedFrames, selectedLighting,
                   selectedTextures, editablePrompts, isAnalyzing, isGenerating,
                   loadingMessage>>

\* The backoff timer of an upscale fires (its length plays no part here).
UpscaleBackoffElapses ==
    /\ \E k \in 1..Len(upscales) :
          /\ upscales[k].pc = "backoff"
          /\ upscales' = [upscales EXCEPT
                            ![k].pc = "call",
                            ![k].rt = RetryWake(@, DefaultRetries)]
    /\ UNCHANGED <<hostVars, retryVars, envVars, uiVars, asyncVars, boundVars, regen, gen,
                   upscalingId, regens>>

(***************************************************************************)
(* SpecUpscale: the application from construction with any stored count:   *)
(* an upload, its analysis, the frame selector, a batch whose remote calls *)
(* resolve, and upscales of its results, also overlapping, whose remote    *)
(* calls resolve, reject and are retried.                                  *)
(***************************************************************************)
\* What localStorage holds under 'mockupSettings': nothing, or an object with
\* another count.
SavedCounts == {<<>>, <<[count |-> 3]>>}

InitUpscale ==
    /\ RetryUnused
    /\ \E saved \in SavedCounts : AppConstructed(SomeKey, saved)

NextUpscale ==
    \/ ProcessFile
    \/ AnalysisSettles
    \/ ToggleFrame
    \/ GenerateBatch
    \/ StaggerElapses
    \/ CallResolves
    \/ Tick
    \/ HandleUpscale
    \/ UpscaleResolves
    \/ UpscaleRejects
    \/ UpscaleBackoffElapses

SpecUpscale == InitUpscale /\ [][NextUpscale]_vars

(***************************************************************************)
(* SpecMarker: the application from construction with the default          *)
(* settings: an upload, its analysis, batches whose remote calls resolve,  *)
(* and upscales of their results, also of two results at a time, whose     *)
(* remote calls resolve, reject and are retried.                           *)
(***************************************************************************)
HandleUpscaleToo == UpscaleClicked(MaxWork + MaxOverlap)

InitMarker ==
    /\ RetryUnused
    /\ AppConstructed(SomeKey, <<>>)

NextMarker ==
    \/ ProcessFile
    \/ AnalysisSettles
    \/ GenerateBatch
    \/ StaggerElapses
    \/ CallResolves
    \/ Tick
    \/ HandleUpscaleToo
    \/ UpscaleResolves
    \/ UpscaleRejects
    \/ UpscaleBackoffElapses

SpecMarker == InitMarker /\ [][NextMarker]_vars

(***************************************************************************)
(* The prompt list: updatePrompt, removePrompt, addEmptyPrompt and          *)
(* handleRegenerateSinglePrompt.                                           *)
(***************************************************************************)
NewPromptText == "Describe a new environment..."

\* What the user types into a prompt.
TypedTexts == {"A quiet reading nook"}

\* prompt.isRegenerating, a field an entry has only once it was regenerated
IsRegenerating(p) == "isRegenerating" \in DOMAIN p /\ p.isRegenerating

\* prev.map(p => p.id === id ? { ...p, ...fields } : p)
PatchPrompt(prev, id, fields) ==
    [k \in 1..Len(prev) |-> IF prev[k].id = id THEN Spread(prev[k], fields) ELSE prev[k]]

\* prev.filter(p => p.id !== id)
RECURSIVE WithoutId(_, _)
WithoutId(prev, id) ==
    IF prev = <<>> THEN <<>>
    ELSE IF Head(prev).id = id THEN WithoutId(Tail(prev), id)
    ELSE <<Head(prev)>> \o WithoutId(Tail(prev), id)

\* A removal without the length test.
RemovePromptAlways(prompts, id) == WithoutId(prompts, id)

\* removePrompt: if (editablePrompts.length > 1) setEditablePrompts(prev =>
\* prev.filter(p => p.id !== id))
RemovePromptFrom(prompts, id) ==
    IF Len(prompts) > 1 THEN WithoutId(prompts, id) ELSE prompts

\* addEmptyPrompt: [...prev, { id: crypto.randomUUID(), text }]
AddPromptTo(prompts, id) == Append(prompts, [id |-> id, text |-> NewPromptText])

\* The text area of an entry is edited (it is disabled during an analysis and
\* while the entry is regenerated).
UpdatePrompt ==
    /\ ~isAnalyzing
    /\ work < MaxWork
    /\ work' = work + 1
    /\ \E k \in 1..Len(editablePrompts), newText \in TypedTexts :
          /\ ~IsRegenerating(editablePrompts[k])
          /\ editablePrompts' =
                PatchPrompt(editablePrompts, editablePrompts[k].id, [text |-> newText])
    /\ UNCHANGED <<retryVars, envVars, asyncVars, sideVars, sourceImage, settings,
                   selectedFrames, selectedLighting, selectedTextures, isAnalyzing,
                   isGenerating, loadingMessage, results, alerts>>

\* removePrompt is called for an entry (its button is shown outside an
\* analysis for an entry that is not being regenerated).
RemovePrompt ==
    /\ ~isAnalyzing
    /\ \E k \in 1..Len(editablePrompts) :
          /\ ~IsRegenerating(editablePrompts[k])
          /\ editablePrompts' = RemovePromptFrom(editablePrompts, editablePrompts[k].id)
    /\ UNCHANGED <<retryVars, envVars, asyncVars, boundVars, sideVars, sourceImage,
                   settings, selectedFrames, selectedLighting, selectedTextures,
                   isAnalyzing, isGenerating, loadingMessage, results, alerts>>

\* The Add Prompt button.
AddEmptyPrompt ==
    /\ work < MaxWork
    /\ work' = work + 1
    /\ editablePrompts' = AddPromptTo(editablePrompts, Uuid(uuids + 1))
    /\ uuids' = uuids + 1
    /\ UNCHANGED <<retryVars, apiKey, now, asyncVars, sideVars, sourceImage, settings,
                   selectedFrames, selectedLighting, selectedTextures, isAnalyzing,
                   isGenerating, loadingMessage, results, alerts>>

\* The re-roll button of an entry: handleRegenerateSinglePrompt up to its
\* await.
RegenerateClicked ==
    /\ sourceImage # NoImage
    /\ ~isAnalyzing
    /\ work < MaxWork
    /\ work' = work + 1
    /\ \E k \in 1..Len(editablePrompts) :
          /\ ~IsRegenerating(editablePrompts[k])
          /\ editablePrompts' =
                PatchPrompt(editablePrompts, editablePrompts[k].id,
                            [isRegenerating |-> TRUE])
          /\ regens' = Append(regens, editablePrompts[k].id)
    /\ UNCHANGED <<hostVars, retryVars, envVars, asyncVars, regen, gen, upscalingId, upscales,
                   sourceImage, settings, selectedFrames, selectedLighting,
                   selectedTextures, isAnalyzing, isGenerating, loadingMessage,
                   results, alerts>>

\* handleRegenerateSinglePrompt after its await: regenerateSinglePrompt
\* returned a text or threw.
RegenerationSettles ==
    /\ \E k \in 1..Len(regens), o \in RegenOutcomes(apiKey) :
          /\ regens' = RemoveAt(regens, k)
          /\ editablePrompts' =
                PatchPrompt(editablePrompts, regens[k],
                            IF o.threw
                            THEN [isRegenerating |-> FALSE]
                            ELSE [text |-> o.value, isRegenerating |-> FALSE])
    /\ UNCHANGED <<hostVars, retryVars, envVars, asyncVars, boundVars, regen, gen, upscalingId,
                   upscales, sourceImage, settings, selectedFrames, selectedLighting,
                   selectedTextures, isAnalyzing, isGenerating, loadingMessage,
                   results, alerts>>

(***************************************************************************)
(* SpecPrompts: the application from construction with or without a        *)
(* credential: uploads with their analyses, and the prompt list edited,    *)
(* extended, shortened and regenerated at any time the interface allows.   *)
(***************************************************************************)
InitPrompts ==
    /\ RetryUnused
    /\ \E key \in {NoKey, SomeKey} : AppConstructed(key, <<>>)

NextPrompts ==
    \/ ProcessFile
    \/ AnalysisSettles
    \/ UpdatePrompt
    \/ RemovePrompt
    \/ AddEmptyPrompt
    \/ RegenerateClicked
    \/ RegenerationSettles

SpecPrompts == InitPrompts /\ [][NextPrompts]_vars

(***************************************************************************)
(* deleteResult and clearHistory.                                          *)
(***************************************************************************)
\* prev.filter(r => r.id !== id)
DeleteFrom(prev, id) == SelectSeq(prev, LAMBDA r : r.id # id)

\* The delete button of a result that is not covered by the upscaling
\* overlay: setResults(prev => prev.filter(r => r.id !== id)).
DeleteResult ==
    /\ \E k \in 1..Len(results) :
          /\ upscalingId # results[k].id
          /\ results' = DeleteFrom(results, results[k].id)
    /\ UNCHANGED <<retryVars, envVars, asyncVars, boundVars, sideVars,
                   sourceImage, settings, selectedFrames, selectedLighting,
                   selectedTextures, editablePrompts, isAnalyzing,
                   isGenerating, loadingMessage, alerts>>

\* The Clear button, shown while there are results, with the answer to
\* confirm("Clear all?").
ClearHistory ==
    /\ Len(results) > 0
    /\ \E confirmed \in BOOLEAN :
          results' = IF confirmed THEN <<>> ELSE results
    /\ UNCHANGED <<retryVars, envVars, asyncVars, boundVars, sideVars,
                   sourceImage, settings, selectedFrames, selectedLighting,
                   selectedTextures, editablePrompts, isAnalyzing,
                   isGenerating, loadingMessage, alerts>>

(***************************************************************************)
(* SpecStore: the application from construction with the default settings: *)
(* an upload, its analysis, batches and upscales whose remote calls        *)
(* resolve, and the deletion of one or of all results in between.          *)
(***************************************************************************)
InitStore ==
    /\ RetryUnused
    /\ AppConstructed(SomeKey, <<>>)

NextStore ==
    \/ ProcessFile
    \/ AnalysisSettles
    \/ GenerateBatch
    \/ StaggerElapses
    \/ CallResolves
    \/ Tick
    \/ HandleUpscale
    \/ UpscaleResolves
    \/ DeleteResult
    \/ ClearHistory

SpecStore == InitStore /\ [][NextStore]_vars

(***************************************************************************)
(* SpecCompose: generateMockup called once with settings of every frame    *)
(* style, lighting, wall texture, print size and negative prompt, up to    *)
(* the text it composes.                                                   *)
(***************************************************************************)
PrintSizes == {"", "A3", "A1"}

NegativePrompts == {"", " ", DEFAULT_SETTINGS.negativePrompt}

ComposeSettings ==
    {[DEFAULT_SETTINGS EXCEPT
        !.frameStyle = f, !.lighting = l, !.wallTexture = t,
        !.printSize = p, !.negativePrompt = n] :
        f \in FrameChoices, l \in LightingChoices, t \in TextureChoices,
        p \in PrintSizes, n \in NegativePrompts}

InitCompose ==
    /\ RetryUnused
    /\ \E s \in ComposeSettings : AppConstructed(SomeKey, <<s>>)

\* generateMockup(sourceImage, settings) up to the first await: the key is
\* looked up, the text composed and every slot started.
GenerateComposes ==
    /\ gen.pc = "idle"
    /\ gen' = GenEnter(apiKey, settings.count)
    /\ finalPrompt' = IF apiKey = NoKey THEN NoPrompt ELSE FinalPrompt(settings)
    /\ UNCHANGED <<retryVars, envVars, uiVars, asyncVars, boundVars,
                   regen, upscalingId, upscales, regens, host, hasKey>>

NextCompose == GenerateComposes

SpecCompose == InitCompose /\ [][NextCompose]_vars

(***************************************************************************)
(* SpecReupload: the application from construction with a key: uploads of  *)
(* one piece of art and then of another, also while the analysis of the    *)
(* first is in flight, and the analyses settling in any order.             *)
(***************************************************************************)
\* processFile with another JPEG once an image is loaded: reader.onloadend.
ProcessOtherFile ==
    /\ sourceImage # NoImage
    /\ work < MaxWork
    /\ work' = work + 1
    /\ \E img \in OtherImages :
          /\ sourceImage' = img.data
          /\ analyses' = Append(analyses, [image |-> img.data])
          /\ settings' = [settings EXCEPT !.aspectRatio = AspectFor(img)]
    /\ isAnalyzing' = TRUE
    /\ editablePrompts' = <<[id |-> IdLoading, text |-> AnalyzingText]>>
    /\ UNCHANGED <<sideVars, retryVars, envVars, closure, jobs, batchStartedAt,
                   batches, analyze, selectedFrames, selectedLighting,
                   selectedTextures, isGenerating, loadingMessage, results,
                   alerts>>

InitReupload ==
    /\ RetryUnused
    /\ AppConstructed(SomeKey, <<>>)

NextReupload ==
    \/ ProcessFile
    \/ ProcessOtherFile
    \/ AnalysisSettles

SpecReupload == InitReupload /\ [][NextReupload]_vars

(***************************************************************************)
(* SpecBatchLive: the application from construction with a key: an upload, *)
(* its analysis and a batch whose remote calls resolve, reject and are     *)
(* retried, under the scheduling of the event loop: a timer that is due    *)
(* fires, time passes to the next deadline, and a remote call in flight    *)
(* returns or fails.                                                       *)
(***************************************************************************)
CallSettles == CallResolves \/ CallRejects

InitBatchLive ==
    /\ RetryUnused
    /\ AppConstructed(SomeKey, <<>>)

NextBatchLive ==
    \/ ProcessFile
    \/ AnalysisSettles
    \/ GenerateBatch
    \/ StaggerElapses
    \/ CallResolves
    \/ CallRejects
    \/ BackoffElapses
    \/ Tick

SpecBatchLive ==
    /\ InitBatchLive
    /\ [][NextBatchLive]_vars
    /\ WF_vars(StaggerElapses)
    /\ WF_vars(BackoffElapses)
    /\ WF_vars(Tick)
    /\ WF_vars(CallSettles)

(***************************************************************************)
(* SpecSnapshot: the application from construction with a key: an upload,  *)
(* its analysis, the prompt list edited, extended, shortened and           *)
(* regenerated and the lighting selector toggled at any time, also while   *)
(* a batch whose remote calls resolve is in flight.                        *)
(***************************************************************************)
InitSnapshot ==
    /\ RetryUnused
    /\ AppConstructed(SomeKey, <<>>)

NextSnapshot ==
    \/ ProcessFile
    \/ AnalysisSettles
    \/ UpdatePrompt
    \/ RemovePrompt
    \/ AddEmptyPrompt
    \/ RegenerateClicked
    \/ RegenerationSettles
    \/ ToggleLighting
    \/ GenerateBatch
    \/ StaggerElapses
    \/ CallResolves
    \/ Tick

SpecSnapshot == InitSnapshot /\ [][NextSnapshot]_vars

(***************************************************************************)
(* SpecCredential: the application mounted on any host (environment        *)
(* variable, window.aistudio and stored value): the init effect asks       *)
(* checkApiKey, and on the main screen, shown when it said yes, a          *)
(* generation is requested.                                                *)
(***************************************************************************)
\* useEffect(init, []): setHasKey(await checkApiKey())
CheckOnMount ==
    /\ ~hasKey
    /\ gen.pc = "idle"
    /\ hasKey' = checkApiKey(host)
    /\ UNCHANGED <<retryVars, envVars, uiVars, asyncVars, boundVars, regen, gen,
                   upscalingId, upscales, regens, host, finalPrompt>>

\* The main screen is rendered only when hasKey is true.
MainScreen == hasKey

InitCredential ==
    /\ RetryUnused
    /\ \E h \in Hosts : AppMounted(h, <<>>)

NextCredential ==
    \/ CheckOnMount
    \/ MainScreen /\ CallGenerate

SpecCredential == InitCredential /\ [][NextCredential]_vars
(***************************************************************************)
(* Claims about retry().                                                   *)
(***************************************************************************)
RetryFinished == rt.pc \in {"returned", "thrown"}

AllTransient(log) ==
    \A k \in 1..Len(log) : log[k] # FnOk /\ IsTransient(log[k])

\* C1: retry invokes the operation at most `retries` times; when every
\* attempt failed with a transient error and retry has finished, the operation
\* was invoked exactly `retries` times, one wait was made after each attempt
\* but the last, and retry threw the error of the last attempt.
C1_BoundedAttempts ==
    /\ rt.calls <= retries
    /\ Len(fnLog) <= rt.calls
    /\ (RetryFinished /\ AllTransient(fnLog)) =>
          /\ rt.pc = "thrown"
          /\ rt.calls = retries
          /\ Len(fnLog) = retries
          /\ retries > 0 =>
                /\ Len(rt.waits) = retries - 1
                /\ rt.err = fnLog[Len(fnLog)]

\* C1 witness: three transient failures in a row exhausted retry(fn, 3, ...).
C1_Witness ==
    /\ retries = 3
    /\ rt.pc = "thrown"
    /\ Len(fnLog) = 3
    /\ AllTransient(fnLog)
    /\ fnLog[3] # fnLog[2]

\* C2: when the operation in flight rejects with an error retry classifies as
\* terminal, retry throws that same error in the same step, without invoking
\* the operation again and without a wait, at every attempt index; and a
\* retry that has thrown does nothing more.
C2_TerminalFailsAtOnce ==
    [][/\ (rt.pc = "await" /\ Len(fnLog') = Len(fnLog) + 1
            /\ fnLog'[Len(fnLog')] # FnOk
            /\ ~IsTransient(fnLog'[Len(fnLog')]))
          => /\ rt'.pc = "thrown"
             /\ rt'.err = fnLog'[Len(fnLog')]
             /\ rt'.calls = rt.calls
             /\ rt'.waits = rt.waits
       /\ rt.pc = "thrown" => rt' = rt]_vars

\* C2 witness: a terminal error at the second of three attempts ended retry
\* after two invocations and the one wait that preceded the second attempt.
C2_Witness ==
    /\ retries = 3
    /\ rt.pc = "thrown"
    /\ rt.calls = 2
    /\ Len(rt.waits) = 1
    /\ ~IsTransient(rt.err)
    /\ rt.err = fnLog[2]

\* C3: the k-th wait of a call (after the failed attempt with index k - 1) is
\* exactly baseDelay * 2^(k - 1), there is one wait per failed attempt that is
\* followed by another attempt, and retry(op, 3, 100) that succeeds at its
\* third attempt has waited 100 + 200 = 300 ms in total.
C3_ExponentialBackoff ==
    /\ \A k \in 1..Len(rt.waits) : rt.waits[k] = baseDelay * (2 ^ (k - 1))
    /\ rt.pc = "wait" => Len(rt.waits) = rt.i + 1
    /\ rt.pc \in {"await", "returned", "thrown"} => Len(rt.waits) = rt.i
    /\ (retries = 3 /\ baseDelay = 100 /\ rt.pc = "returned" /\ rt.calls = 3)
          => SumSeq(rt.waits) = 300

\* C3 witness: two transient failures, then success, under retry(op, 3, 100).
C3_Witness ==
    /\ retries = 3
    /\ baseDelay = 100
    /\ rt.pc = "returned"
    /\ Len(fnLog) = 3
    /\ fnLog[3] = FnOk
    /\ rt.waits = <<100, 200>>

\* C4 (as claimed): retry waits for another attempt only after an error whose
\* status is HTTP 503 or 429, and an error it throws before the last attempt
\* has neither status.
C4_TransientIffStatus ==
    /\ rt.pc = "wait" => IsTransientByStatus(rt.err)
    /\ (rt.pc = "thrown" /\ rt.calls < retries) => ~IsTransientByStatus(rt.err)

(***************************************************************************)
(* Claims about handleGenerateBatch.                                       *)
(***************************************************************************)
\* The step in which the last job of a batch settles and the handler ends.
BatchFinishes ==
    /\ jobs' # <<>>
    /\ AllDone(jobs')
    /\ batches' # batches \/ ~AllDone(jobs)

\* The prompt entries that batch was started with.
BatchPrompts == IF batches' # batches THEN editablePrompts ELSE closure.editablePrompts

Failed(js) == {k \in 1..Len(js) : js[k].out = <<>>}

\* The prompt texts of the jobs of js that did not fail, in index order.
RECURSIVE SurvivorPrompts(_, _, _)
SurvivorPrompts(ps, js, k) ==
    IF k > Len(js) THEN <<>>
    ELSE IF js[k].out = <<>> THEN SurvivorPrompts(ps, js, k + 1)
    ELSE <<ps[k].text>> \o SurvivorPrompts(ps, js, k + 1)

PromptsOf(rs) == [k \in 1..Len(rs) |-> rs[k].prompt]

\* C5 (as claimed): for every N, when exactly one job of a batch of N failed,
\* the batch ends without an alert and adds exactly N - 1 results, in job
\* index order.
C5_OneFailureAnyN ==
    [][(BatchFinishes /\ Cardinality(Failed(jobs')) = 1)
        => /\ alerts' = alerts
           /\ Len(results') = Len(results) + Len(jobs') - 1
           /\ PromptsOf(SubSeq(results', 1, Len(jobs') - 1))
                 = SurvivorPrompts(BatchPrompts, jobs', 1)]_vars

\* C5 (amended): for N >= 2, when exactly one job of a batch of N failed, the
\* batch ends without an alert and puts exactly N - 1 new results in front of
\* the stored ones, one per surviving job and in job index order whatever the
\* order in which the jobs settled; the stored results are kept.
C5_OneFailureOfSeveral ==
    [][(BatchFinishes /\ Cardinality(Failed(jobs')) = 1 /\ Len(jobs') >= 2)
        => /\ alerts' = alerts
           /\ Len(results') = Len(results) + Len(jobs') - 1
           /\ PromptsOf(SubSeq(results', 1, Len(jobs') - 1))
                 = SurvivorPrompts(BatchPrompts, jobs', 1)
           /\ SubSeq(results', Len(jobs'), Len(results')) = results]_vars

\* C5 witness: a batch of three whose middle job failed and whose last job
\* settled before its first one; the store holds the first job's result, then
\* the last job's.
C5_Witness ==
    /\ Len(jobs) = 3
    /\ AllDone(jobs)
    /\ Failed(jobs) = {2}
    /\ jobs[3].out[1].id = Uuid(uuids - 1)
    /\ jobs[1].out[1].id = Uuid(uuids)
    /\ results = <<jobs[1].out[1], jobs[3].out[1]>>
    /\ alerts = <<>>

\* C6: when every job of a batch failed, the step that ends the batch adds
\* exactly one alert, the batch summary, and leaves the stored results as
\* they were.
C6_EmptyBatch ==
    [][(BatchFinishes /\ Failed(jobs') = 1..Len(jobs'))
        => /\ alerts' = Append(alerts, BatchEmptyAlert)
           /\ results' = results]_vars

\* C6 witness: a second batch, all of whose jobs failed, ended with the one
\* alert while the store held the result of the first batch.
C6_Witness ==
    /\ batches = 2
    /\ jobs # <<>>
    /\ AllDone(jobs)
    /\ Failed(jobs) = 1..Len(jobs)
    /\ Len(results) = 1
    /\ alerts = <<BatchEmptyAlert>>

\* C7 (as claimed): a job whose first remote call is in flight has index 0 or
\* began it no sooner than index * 2500 ms after the batch started, and the
\* stagger deadlines of the waiting jobs increase strictly with the index.
C7_StaggerCumulative ==
    /\ \A k \in 1..Len(jobs) :
          (jobs[k].pc = "call" /\ jobs[k].rt.i = 0)
             => now >= batchStartedAt + (k - 1) * StaggerMs
    /\ \A j, k \in 1..Len(jobs) :
          (j < k /\ jobs[j].pc = "stagger" /\ jobs[k].pc = "stagger")
             => jobs[j].wake < jobs[k].wake

\* C8: every job that has built its settings has the frame, lighting and
\* texture found at its 0-based index modulo the size of the selection the
\* batch was started with; with two frames selected, jobs 0 and 2 get the
\* first and job 1 the second.
Dispatched(k) == jobs[k].pc \in {"call", "backoff"}

C8_RoundRobin ==
    \A k \in 1..Len(jobs) :
        Dispatched(k) =>
           /\ jobs[k].req.frameStyle
                 = closure.selectedFrames[((k - 1) % Len(closure.selectedFrames)) + 1]
           /\ jobs[k].req.lighting
                 = closure.selectedLighting[((k - 1) % Len(closure.selectedLighting)) + 1]
           /\ jobs[k].req.wallTexture
                 = closure.selectedTextures[((k - 1) % Len(closure.selectedTextures)) + 1]
           /\ (Len(closure.selectedFrames) = 2 /\ k \in {1, 3})
                 => jobs[k].req.frameStyle = closure.selectedFrames[1]
           /\ (Len(closure.selectedFrames) = 2 /\ k = 2)
                 => jobs[k].req.frameStyle = closure.selectedFrames[2]

\* C8 witness: three jobs in flight under two frames, one lighting and one
\* texture, the third job wrapping around to the first frame, after the user
\* changed the frame selection while the batch ran.
C8_Witness ==
    /\ Len(jobs) = 3
    /\ \A k \in 1..3 : Dispatched(k)
    /\ closure.selectedFrames = <<"None", "Sleek Black">>
    /\ Len(closure.selectedTextures) = 1
    /\ Len(closure.selectedLighting) = 1
    /\ jobs[3].req.frameStyle = "None"
    /\ jobs[2].req.frameStyle = "Sleek Black"
    /\ selectedFrames = <<"Auto">>

\* C9 (as claimed): every request a batch job has built has the draft
\* resolution and count 1.
C9_DraftAndOne ==
    \A k \in 1..Len(jobs) :
        Dispatched(k) => jobs[k].req.imageSize = "1K" /\ jobs[k].req.count = 1

\* C9 (amended): every request a batch job has built has count 1 whatever the
\* base settings hold, and the resolution of the base settings: the draft
\* resolution when they hold the default, the stored one when the settings
\* restored at start hold another.
C9_OneAndBaseResolution ==
    \A k \in 1..Len(jobs) :
        Dispatched(k) =>
           /\ jobs[k].req.count = 1
           /\ jobs[k].req.imageSize = closure.settings.imageSize
           /\ closure.settings.imageSize = "1K" => jobs[k].req.imageSize = "1K"

\* C9 witness: a job built its request from restored settings that ask for
\* three images.
C9_Witness ==
    /\ Len(jobs) = 3
    /\ Dispatched(3)
    /\ closure.settings.count = 3
    /\ jobs[3].req.count = 1

\* A batch has been started and not every job of it has settled.
BatchInFlight == jobs # <<>> /\ ~AllDone(jobs)

FlagsReset == ~isGenerating /\ loadingMessage = <<>>

\* C27: from the start of a batch the generating flag is true as long as a
\* job of it has not settled; the step in which the last job settles resets
\* the flag and the progress message, with results or without; and when timers
\* fire and remote calls return or fail, a batch in flight leads to that reset.
C27_GeneratingUntilSettled ==
    /\ [](BatchInFlight => isGenerating)
    /\ [][BatchFinishes => FlagsReset']_vars
    /\ (isGenerating ~> FlagsReset)

\* The second batch has ended without a result, after a first that stored
\* one, and the flag and the message are reset.
C27_Witness ==
    /\ batches = 2
    /\ ~BatchInFlight
    /\ FlagsReset
    /\ Len(results) > 0
    /\ alerts = <<BatchEmptyAlert>>

(***************************************************************************)
(* Claims about analyzeImageForPrompts.                                    *)
(***************************************************************************)
\* C10 (as claimed): whatever the remote call did, a value returned by
\* analyzeImageForPrompts is a sequence of at least one and at most 4 strings.
C10_NonEmptyAtMostFour ==
    analyze.pc = "returned"
        => Len(analyze.value) >= 1 /\ Len(analyze.value) <= MaxSuggestions

\* The outcome of the last remote call of the analysis: an error, or a body.
LastOutcome == fnLog[Len(fnLog)]

IsBody(o) == "kind" \in DOMAIN o

\* The analysis returned after a failure: retry threw, or the body was not
\* JSON, or it was JSON of another shape than an array.
SuggestionFailure ==
    /\ analyze.pc = "returned"
    /\ \/ rt.pc = "thrown"
       \/ /\ rt.pc = "returned"
          /\ IsBody(LastOutcome)
          /\ LastOutcome.kind \in {"garbage", "object"}

\* C11 (as claimed): after each kind of suggestion failure (retries used up, a
\* body that is not JSON, a JSON body that is not an array) the value returned
\* by analyzeImageForPrompts is the fixed list of 4 fallback suggestions.
C11_FallbackOnEveryFailure ==
    SuggestionFailure => analyze.value = FALLBACK_SUGGESTIONS

(***************************************************************************)
(* Claims about the entry points of geminiService.                         *)
(***************************************************************************)
\* C12 (as claimed): in every state, also without a credential, neither
\* analyzeImageForPrompts nor regenerateSinglePrompt has thrown to its caller.
C12_NeverPropagates ==
    analyze.pc # "threw" /\ regen.pc # "threw"

\* The regeneration returned after its remote call failed for good.
RegenCallFailed == regen.pc = "returned" /\ rt.pc = "thrown"

\* The regeneration returned after a body that holds no suggestion.
RegenBodyUnusable ==
    /\ regen.pc = "returned"
    /\ rt.pc = "returned"
    /\ \/ LastOutcome.kind \in {"garbage", "object", "none"}
       \/ LastOutcome.kind = "array" /\ LastOutcome.items = <<>>

\* C12 (amended): with a credential neither function ever throws: a remote
\* call that failed for good, and a body that cannot be used, end in a
\* returned value, which for regenerateSinglePrompt is one of its two fixed
\* fallback strings (the catch block's after a failed call or a body that is
\* not JSON, the other after a body that is not a non-empty array).  Without a
\* credential a function that was called has thrown the configuration error.
C12_PropagatesOnlyNoKey ==
    /\ apiKey # NoKey => (analyze.pc # "threw" /\ regen.pc # "threw")
    /\ (apiKey = NoKey /\ analyze.pc # "idle") => analyze = AnalyzeThrew
    /\ (apiKey = NoKey /\ regen.pc # "idle") => regen = RegenThrew
    /\ RegenCallFailed => regen.value = REGEN_CATCH_FALLBACK
    /\ RegenBodyUnusable =>
          regen.value = IF LastOutcome.kind = "garbage"
                        THEN REGEN_CATCH_FALLBACK
                        ELSE REGEN_EMPTY_FALLBACK
    /\ (analyze.pc = "returned" /\ rt.pc = "thrown")
          => analyze.value = FALLBACK_SUGGESTIONS

\* C12 witness: regenerateSinglePrompt returned its catch fallback after three
\* transient failures of the remote call.
C12_Witness ==
    /\ RegenCallFailed
    /\ rt.calls = DefaultRetries
    /\ IsTransient(rt.err)
    /\ regen.value = REGEN_CATCH_FALLBACK

\* C13: without a credential, an entry point that was called has thrown the
\* configuration error in the step that called it: the analysis, the single
\* regeneration and the generation are each either not called or thrown with
\* that error; no slot of the generation was started, retry() was never
\* entered (no attempt, no wait) and no remote call has had an outcome.
C13_NoKeyFailsFast ==
    apiKey = NoKey =>
        /\ analyze \in {AnalyzeIdle, AnalyzeThrew}
        /\ regen \in {RegenIdle, RegenThrew}
        /\ gen.pc \in {"idle", "threw"}
        /\ gen.pc = "threw" => (gen.err = MsgNoKey /\ gen.slots = <<>>)
        /\ analyze.pc = "threw" => analyze.err = MsgNoKey
        /\ regen.pc = "threw" => regen.err = MsgNoKey
        /\ rt = RetryIdle
        /\ rt.calls = 0 /\ rt.waits = <<>>
        /\ fnLog = <<>>

\* C13 witness: generateMockup was called without a credential and threw.
C13_Witness ==
    /\ apiKey = NoKey
    /\ gen.pc = "threw"
    /\ gen.err = MsgNoKey

\* The URLs of the slots from k on that did not yield null, in slot order.
RECURSIVE NonNullFrom(_, _)
NonNullFrom(slots, k) ==
    IF k > Len(slots) THEN <<>>
    ELSE IF slots[k].out = <<>> THEN NonNullFrom(slots, k + 1)
    ELSE <<slots[k].out[1]>> \o NonNullFrom(slots, k + 1)

AllNull(slots) == \A k \in 1..Len(slots) : slots[k].out = <<>>

\* A step of a slot of the running call.
SlotStep == gen.pc = "slots" /\ gen' # gen

\* C17: in a call of generateMockup with a credential, every slot has its own
\* retry() call and a step of one slot leaves every other slot as it was; a
\* slot whose retry() threw is settled with null; the call stays pending while
\* a slot is pending and is settled as soon as none is; it returns exactly the
\* URLs of the non-null slots in slot order; and it throws, with the no-images
\* error, exactly when every slot yielded null.
C17_SlotsIndependent ==
    /\ [](apiKey # NoKey =>
            /\ \A k \in 1..Len(gen.slots) :
                  /\ gen.slots[k].rt.pc = "thrown"
                        => (gen.slots[k].pc = "done" /\ gen.slots[k].out = <<>>)
                  /\ gen.slots[k].pc = "done"
                        <=> gen.slots[k].rt.pc \in {"thrown", "returned"}
            /\ gen.pc = "slots" <=> (gen.slots # <<>> /\ ~SlotsDone(gen.slots))
            /\ gen.pc = "returned"
                  => /\ gen.value = NonNullFrom(gen.slots, 1)
                     /\ gen.value # <<>>
            /\ gen.pc = "threw"
                  <=> (gen.slots # <<>> /\ SlotsDone(gen.slots) /\ AllNull(gen.slots))
            /\ gen.pc = "threw" => gen.err = MsgNoImages)
    /\ [][SlotStep =>
            /\ Len(gen'.slots) = Len(gen.slots)
            /\ Cardinality({k \in 1..Len(gen.slots) : gen'.slots[k] # gen.slots[k]}) = 1]_vars

\* C17 witness: a call with three slots returned the URLs of its first and
\* third slot, in that order, its second slot having used up its retries.
C17_Witness ==
    /\ gen.pc = "returned"
    /\ Len(gen.slots) = 3
    /\ gen.slots[2].rt.pc = "thrown"
    /\ gen.slots[2].rt.calls = DefaultRetries
    /\ gen.slots[1].out = <<DataUrl("A")>>
    /\ gen.slots[3].out = <<DataUrl("B")>>
    /\ gen.value = <<DataUrl("A"), DataUrl("B")>>

(***************************************************************************)
(* Claims about handleUpscale.                                             *)
(***************************************************************************)
\* The step in which the k-th call of handleUpscale ends with a new result.
UpscaleSucceeds(k) ==
    /\ InFlight(upscales[k])
    /\ upscales'[k].pc = "done"
    /\ upscales'[k].out # <<>>

\* The step in which the k-th call of handleUpscale ends without one.
UpscaleFails(k) ==
    /\ InFlight(upscales[k])
    /\ upscales'[k].pc = "done"
    /\ upscales'[k].out = <<>>

\* C14: the step in which the upscale of a draft result R succeeds puts one
\* new result in front of the store, with R's prompt, the high-resolution
\* flag and an identifier that neither R nor any stored result has; every
\* result stored before, R among them, is still stored with all its fields.
C14_UpscaleAddsSibling ==
    [][\A k \in 1..Len(upscales) :
          UpscaleSucceeds(k) =>
             LET R == upscales[k].result
                 new == results'[1]
             IN /\ ~R.isHighRes
                /\ Len(results') = Len(results) + 1
                /\ new = upscales'[k].out[1]
                /\ new.prompt = R.prompt
                /\ new.isHighRes
                /\ new.id # R.id
                /\ \A j \in 1..Len(results) : results[j].id # new.id
                /\ \A j \in 1..Len(results) : results'[j + 1] = results[j]
                /\ (\E j \in 1..Len(results) : results[j] = R)
                      => \E j \in 1..Len(results') : results'[j] = R]_vars

\* C14 witness: the store holds a draft result and, in front of it, the
\* high-resolution result its upscale produced.
C14_Witness ==
    /\ Len(results) = 2
    /\ Len(upscales) = 1
    /\ upscales[1].pc = "done"
    /\ upscales[1].result = results[2]
    /\ ~results[2].isHighRes
    /\ results[1] = upscales[1].out[1]
    /\ results[1].prompt = results[2].prompt

\* C15: the request of every call of handleUpscale asks for the 4K
\* resolution and one image, carries the prompt of the result it was called
\* for, and has frame, lighting and wall texture "Auto", whatever the
\* selections and the base settings are.
C15_UpscaleRequest ==
    \A k \in 1..Len(upscales) :
        /\ upscales[k].req.imageSize = "4K"
        /\ upscales[k].req.count = 1
        /\ upscales[k].req.prompt = upscales[k].result.prompt
        /\ upscales[k].req.frameStyle = "Auto"
        /\ upscales[k].req.lighting = "Auto"
        /\ upscales[k].req.wallTexture = "Auto"

\* C15 witness: an upscale is in flight while the base settings ask for three
\* images and a frame other than "Auto" is selected.
C15_Witness ==
    /\ Len(upscales) = 1
    /\ InFlight(upscales[1])
    /\ settings.count = 3
    /\ selectedFrames = <<"Sleek Black">>
    /\ upscales[1].req.count = 1
    /\ upscales[1].req.frameStyle = "Auto"

\* C16: the step in which an upscale fails shows the upscale alert, leaves
\* the store as it was and leaves the marker cleared, so that it no longer
\* names the result the upscale was called for.
C16_UpscaleFailure ==
    [][\A k \in 1..Len(upscales) :
          UpscaleFails(k) =>
             /\ alerts' = Append(alerts, UpscaleAlert)
             /\ results' = results
             /\ upscalingId' = NoId
             /\ upscalingId' # upscales[k].result.id]_vars

\* C16 witness: an upscale failed at its third attempt; the one alert is shown,
\* the store still holds only the draft and the marker is cleared.
C16_Witness ==
    /\ Len(upscales) = 1
    /\ upscales[1].pc = "done"
    /\ upscales[1].out = <<>>
    /\ upscales[1].rt.i = DefaultRetries - 1
    /\ alerts = <<UpscaleAlert>>
    /\ results = <<upscales[1].result>>
    /\ upscalingId = NoId

\* C24 (as claimed): while an upscale is in flight, the marker names a result
\* whose upscale is in flight; the end of one of two overlapping upscales
\* does not clear it.
C24_MarkerNamesUpscaleInFlight ==
    (\E k \in 1..Len(upscales) : InFlight(upscales[k]))
        => \E k \in 1..Len(upscales) :
              /\ InFlight(upscales[k])
              /\ upscalingId = upscales[k].result.id

(***************************************************************************)
(* Claims about the prompt list.                                           *)
(***************************************************************************)
PromptIds == {editablePrompts[k].id : k \in 1..Len(editablePrompts)}

\* C18: in every state the prompt list has at least one entry and no two
\* entries with the same identifier, so a removal never empties it (calling
\* removePrompt on the only entry changes nothing); and a step of
\* addEmptyPrompt keeps the entries there were and appends exactly one, whose
\* identifier none of them has.
C18_PromptSet ==
    /\ [](/\ Len(editablePrompts) >= 1
          /\ Cardinality(PromptIds) = Len(editablePrompts))
    /\ [][AddEmptyPrompt =>
            /\ Len(editablePrompts') = Len(editablePrompts) + 1
            /\ SubSeq(editablePrompts', 1, Len(editablePrompts)) = editablePrompts
            /\ editablePrompts'[Len(editablePrompts')].id \notin PromptIds]_vars
    /\ [][Len(editablePrompts) = 1 => Len(editablePrompts') >= 1]_vars

\* C18 witness: after an analysis gave three suggestions, one was regenerated,
\* an entry was added and the first suggestion removed.
C18_Witness ==
    /\ Len(editablePrompts) = 3
    /\ editablePrompts[3].text = NewPromptText
    /\ editablePrompts[1].text = "s2"
    /\ editablePrompts[2].text = REGEN_EMPTY_FALLBACK
    /\ ~IsRegenerating(editablePrompts[2])
    /\ regens = <<>>
    /\ ~isAnalyzing

(***************************************************************************)
(* Claims about the constraint selectors.                                  *)
(***************************************************************************)
Selections == {selectedFrames, selectedLighting, selectedTextures}

AllChoices == FrameChoices \cup LightingChoices \cup TextureChoices

\* C19: in every state each of the three selections holds at least one
\* value, and toggling the only value of a selection gives the selection back
\* unchanged.
C19_SelectionNeverEmpty ==
    \A sel \in Selections :
        /\ Len(sel) >= 1
        /\ Len(ToggleOption(sel, sel[1])) >= 1
        /\ Len(sel) = 1 => ToggleOption(sel, sel[1]) = sel

\* C19 witness: the frame selection is down to one value other than "Auto"
\* after a second one was switched on and off again, and the texture
\* selection holds one value other than "Auto".
C19_Witness ==
    /\ selectedFrames = <<"Sleek Black">>
    /\ selectedTextures = <<"Exposed Brick">>
    /\ selectedLighting = <<"Auto">>

\* C20: in every state a selection that holds "Auto" holds nothing else;
\* toggling "Auto" gives exactly <<"Auto">>; and toggling a value other than
\* "Auto" that is not selected gives a selection with that value and without
\* "Auto".
C20_AutoExclusive ==
    \A sel \in Selections :
        /\ SeqIncludes(sel, "Auto") => sel = <<"Auto">>
        /\ ToggleOption(sel, "Auto") = <<"Auto">>
        /\ \A opt \in AllChoices \ {"Auto"} :
              ~SeqIncludes(sel, opt)
                 => /\ SeqIncludes(ToggleOption(sel, opt), opt)
                    /\ ~SeqIncludes(ToggleOption(sel, opt), "Auto")

\* C20 witness: two frames other than "Auto" are selected, "Auto" having been
\* dropped when the first was chosen, and the lighting selection is back at
\* "Auto" alone next to a texture other than "Auto".
C20_Witness ==
    /\ selectedFrames = <<"None", "Sleek Black">>
    /\ selectedLighting = <<"Auto">>
    /\ selectedTextures = <<"Exposed Brick">>

(***************************************************************************)
(* The Result Store under completions and deletions.                       *)
(***************************************************************************)
\* A step in which a batch or an upscale has ended.
CompletionStep ==
    \/ jobs' # <<>> /\ AllDone(jobs') /\ ~AllDone(jobs)
    \/ \E k \in 1..Len(upscales) : InFlight(upscales[k]) /\ ~InFlight(upscales'[k])

\* `next` is `prev` with new results in front of it.
AddedInFront(prev, next) ==
    /\ Len(next) >= Len(prev)
    /\ SubSeq(next, Len(next) - Len(prev) + 1, Len(next)) = prev

\* `next` is `prev` with new results behind it.
AddedBehind(prev, next) ==
    /\ Len(next) >= Len(prev)
    /\ SubSeq(next, 1, Len(prev)) = prev

\* `next` is `prev` without one result, or without all of them.
Deleted(prev, next) ==
    \/ next = <<>>
    \/ \E k \in 1..Len(prev) : next = RemoveAt(prev, k)

\* C21 as stated: a batch completion and an upscale completion leave every
\* stored result in place, unmodified and in order, and put the new results
\* after the stored ones.
C21_NewResultsBehind ==
    [][CompletionStep => AddedBehind(results, results')]_vars

\* C21 amended: a batch completion and an upscale completion leave every
\* stored result present, unmodified and in its relative order, and put the
\* new results in front of the stored ones; the store loses results only in a
\* step that deletes one result or all of them and completes nothing.
C21_NewResultsInFront ==
    [][/\ CompletionStep => AddedInFront(results, results')
       /\ ~AddedInFront(results, results') =>
             /\ Deleted(results, results')
             /\ ~CompletionStep
             /\ UNCHANGED <<jobs, upscales, alerts, uuids>>]_vars

\* Two batches and an upscale have stored results and one draft has been
\* deleted: of the two drafts made one is left, behind the high resolution
\* result that was stored last.
C21_Witness ==
    /\ batches = 2
    /\ alerts = <<>>
    /\ Len(results) = 2
    /\ results[1].isHighRes
    /\ ~results[2].isHighRes
    /\ \E k \in 1..Len(upscales) : upscales[k].pc = "done" /\ upscales[k].out # <<>>

(***************************************************************************)
(* Claims about the text generateMockup composes.                          *)
(***************************************************************************)
\* Where the label `w` stands in the text `s`.
IndexOf(s, w) == CHOOSE k \in 1..Len(s) : s[k] = w

\* The words between the label `from` and the label `to`.
Clause(s, from, to) == SubSeq(s, IndexOf(s, from) + 1, IndexOf(s, to) - 1)

\* The words of framing and of reflections on glass.
FramingWords == {"framed", "frame", "glass", "reflections"}

\* C22 (as claimed): for frame style "None" no clause of the composed text
\* has a word of framing or of reflections on glass, whatever the other
\* settings are.
C22_NoneHasNoFramingWords ==
    (finalPrompt # NoPrompt /\ settings.frameStyle = "None")
        => \A k \in 1..Len(finalPrompt) : finalPrompt[k] \notin FramingWords

\* The environment clause of the text composed.
Details == Clause(finalPrompt, "DETAILS:", "PLACEMENT:")

\* C23 (as claimed): the environment clause names the lighting exactly when
\* it is not "Auto" and the wall texture exactly when it is not "Auto", and
\* has the instruction to infer for each of the two that is "Auto".
C23_ExplicitOrInferred ==
    finalPrompt # NoPrompt =>
        /\ Includes(Details, <<"Lighting", "Condition:">>) <=> settings.lighting # "Auto"
        /\ Includes(Details, <<"Wall", "Material:">>) <=> settings.wallTexture # "Auto"
        /\ (settings.lighting = "Auto" \/ settings.wallTexture = "Auto")
              => Includes(Details, InferInstruction)

(***************************************************************************)
(* Claims about handleMagicAnalysis.                                       *)
(***************************************************************************)
Texts(prompts) == {prompts[k].text : k \in 1..Len(prompts)}

Words(pool) == {pool[k] : k \in 1..Len(pool)}

\* The image loaded is the one uploaded last, and every analysis has ended.
OtherArtAnalysed ==
    /\ sourceImage \in {img.data : img \in OtherImages}
    /\ analyses = <<>>

\* C25 (as claimed): once the analyses of two uploads have both ended, the
\* prompt set holds the suggestions of the one started last, in whatever
\* order they ended: none of its entries is a suggestion made for the image
\* uploaded first.
C25_LatestAnalysisWins ==
    OtherArtAnalysed => Texts(editablePrompts) \cap Words(SuggestionPool) = {}

\* C26 (as claimed): once the analyzing flag is back to false, the prompt set
\* has no placeholder entry, whatever the analysis returned.
C26_NoPlaceholderLeft ==
    (sourceImage # NoImage /\ ~isAnalyzing)
        => \A k \in 1..Len(editablePrompts) :
              /\ editablePrompts[k].id # IdLoading
              /\ editablePrompts[k].text # AnalyzingText

(***************************************************************************)
(* Claims about what a batch in flight reads.                              *)
(***************************************************************************)
\* The request of job k is made of the values in `c`.
RequestFrom(c, k) ==
    /\ jobs[k].req.prompt = c.editablePrompts[k].text
    /\ jobs[k].req.frameStyle = c.selectedFrames[((k - 1) % Len(c.selectedFrames)) + 1]
    /\ jobs[k].req.lighting = c.selectedLighting[((k - 1) % Len(c.selectedLighting)) + 1]
    /\ jobs[k].req.wallTexture = c.selectedTextures[((k - 1) % Len(c.selectedTextures)) + 1]

\* C28: a batch works on the prompt entries and the selections of the moment
\* it was started.  The values it closed over are those of that moment and
\* stay the same while it is in flight, whatever is edited, added, removed,
\* regenerated or toggled meanwhile; it has one job per entry of then; the
\* request of a job, whenever it is built, is made of them and is not changed
\* afterwards; and the results it stores carry the prompt texts of then.
C28_BatchWorksOnSnapshot ==
    /\ [](BatchInFlight =>
            /\ Len(jobs) = Len(closure.editablePrompts)
            /\ \A k \in 1..Len(jobs) : Dispatched(k) => RequestFrom(closure, k))
    /\ [][/\ (batches' # batches /\ BatchInFlight') => closure' = Closure
          /\ (BatchInFlight /\ BatchInFlight') =>
                /\ closure' = closure
                /\ Len(jobs') = Len(jobs)
                /\ \A k \in 1..Len(jobs) :
                      (Dispatched(k) /\ jobs'[k].pc \in {"call", "backoff"})
                         => jobs'[k].req = jobs[k].req
          /\ BatchFinishes =>
                PromptsOf(SubSeq(results', 1, Len(results') - Len(results)))
                   = SurvivorPrompts(BatchPrompts, jobs', 1)]_vars

\* The second job of a batch of two has built its request while the prompt
\* list no longer has two entries, or other texts, and the lighting selected
\* is no longer that of the start.
C28_Witness ==
    /\ BatchInFlight
    /\ Len(jobs) = 2
    /\ Dispatched(2)
    /\ editablePrompts # closure.editablePrompts
    /\ selectedLighting # closure.selectedLighting

(***************************************************************************)
(* Claims about the credential.                                            *)
(***************************************************************************)
\* C29 (as claimed): on every host, when checkApiKey has said that a
\* credential is available, getApiKey gives one, and a remote call made then
\* does not throw the configuration error.
C29_CheckImpliesLookup ==
    hasKey => /\ getApiKey(host) # NoKey
              /\ gen.err # MsgNoKey

=============================================================================
